---------------------------- MODULE Spec2Model ----------------------------
(***************************************************************************)
(* State-machine model of the VirtualizationService AIDL implementation    *)
(* (virtualizationservice/src/aidl.rs): CID allocation, createVm and disk  *)
(* assembly, the VM registry (State), the payload notification handlers of *)
(* VirtualMachineService, the callback fan-out and the vsock stream accept *)
(* loop.  VmInstance itself (crosvm.rs) is modelled from the design text.  *)
(***************************************************************************)
EXTENDS Integers, Sequences, FiniteSets, TLC

(***************************************************************************)
(* Bounds of the model.                                                    *)
(***************************************************************************)
\* createVm calls that reach next_cid, in Spec, SpecLookup and SpecLife
MaxVms == 1
\* listeners registered, on all instances together
MaxCallbacks == 2
\* connections accepted by the stream listener, in Spec
MaxConns == 1
\* binder threads serving notifyPayload* calls
NThreads == 2
\* createVm calls that reach next_cid, in SpecCid
MaxAllocs == 3
\* createVm calls that reach next_cid, in SpecReg
MaxRegVms == 3
\* handles held by debugHoldVmRef at one time
MaxHeld == 1
\* createVm calls that reach next_cid, in SpecBridge and SpecKill
MaxBridgeVms == 2
\* connections accepted by the stream listener, in SpecBridge
MaxBridgeConns == 2
\* disks of one VM configuration
MaxDisks == 2
\* partitions of one disk
MaxParts == 2

(***************************************************************************)
(* u32 arithmetic.  A u32 is kept as two 16-bit halves so that the whole   *)
(* range 0 .. 2^32-1 is representable; an i32 is an integer.               *)
(***************************************************************************)
Half == 2^16

U32(h, l) == [hi |-> h, lo |-> l]

U32FromNat(n) == U32(n \div Half, n % Half)

U32_MAX == U32(Half - 1, Half - 1)

U32Less(a, b) == a.hi < b.hi \/ (a.hi = b.hi /\ a.lo < b.lo)

NoValue == [none |-> TRUE]

\* u32::checked_add(x, 1): NoValue on overflow
CheckedAdd1(x) ==
    IF x = U32_MAX THEN NoValue
    ELSE IF x.lo = Half - 1 THEN U32(x.hi + 1, 0)
    ELSE U32(x.hi, x.lo + 1)

\* x.checked_mul(10)?.checked_add(d): NoValue on overflow
CheckedMul10Add(x, d) ==
    LET l == x.lo * 10 + d
        h == x.hi * 10 + (l \div Half)
    IN  IF h >= Half THEN NoValue ELSE U32(h, l % Half)

\* `cid as i32`: the two's complement reading of the 32 bits
U32AsI32(x) ==
    IF x.hi < Half \div 2 THEN x.hi * Half + x.lo
    ELSE ((x.hi - Half) * Half) + x.lo

\* `cid as Cid` of an i32
I32AsU32(n) ==
    IF n >= 0 THEN U32FromNat(n)
    ELSE LET m == (n + 2147483647) + 1
         IN  U32((Half \div 2) + (m \div Half), m % Half)

(***************************************************************************)
(* Decimal strings: a string is a sequence of one-character strings.       *)
(***************************************************************************)
Digits == <<"0", "1", "2", "3", "4", "5", "6", "7", "8", "9">>

IsDigit(c) == \E k \in 1..10 : Digits[k] = c

DigitVal(c) == (CHOOSE k \in 1..10 : Digits[k] = c) - 1

\* format!("{}", n) of a u32: canonical decimal, no sign, no leading zero
RECURSIVE FormatU32(_)
FormatU32(x) ==
    LET qh == x.hi \div 10
        t  == (x.hi % 10) * Half + x.lo
        q  == U32(qh, t \div 10)
        d  == Digits[(t % 10) + 1]
    IN  IF q = U32(0, 0) THEN <<d>> ELSE Append(FormatU32(q), d)

RECURSIVE ParseDigits(_, _)
ParseDigits(s, acc) ==
    IF s = <<>> THEN acc
    ELSE IF ~IsDigit(Head(s)) THEN NoValue
    ELSE LET n == CheckedMul10Add(acc, DigitVal(Head(s)))
         IN  IF n = NoValue THEN NoValue ELSE ParseDigits(Tail(s), n)

\* str::parse::<u32>(): an optional '+', then one or more digits; NoValue on
\* an empty string, a non-digit (a '-' included) or a value above u32::MAX
ParseU32(s) ==
    LET body == IF s # <<>> /\ Head(s) = "+" THEN Tail(s) ELSE s
    IN  IF body = <<>> THEN NoValue ELSE ParseDigits(body, U32(0, 0))

(***************************************************************************)
(* CID allocation.                                                         *)
(***************************************************************************)
FIRST_GUEST_CID == 10

\* the system property is not set
NoProp == <<"?">>

\* a next_cid that hands out the persisted value itself
NextCidValueSame(prop) ==
    IF prop = NoProp THEN U32FromNat(FIRST_GUEST_CID)
    ELSE LET num == ParseU32(prop)
         IN  IF num = NoValue THEN U32FromNat(FIRST_GUEST_CID) ELSE num

\* next_cid(): the value to return and to persist, or NoValue ("run out of
\* CID").  prop is the value system_properties::read gives, NoProp on Err.
NextCidValue(prop) ==
    IF prop = NoProp THEN U32FromNat(FIRST_GUEST_CID)
    ELSE LET num == ParseU32(prop)
         IN  IF num = NoValue THEN U32FromNat(FIRST_GUEST_CID)
             ELSE CheckedAdd1(num)


(***************************************************************************)
(* Paths and disk assembly.                                                *)
(***************************************************************************)
TEMPORARY_DIRECTORY == <<"/data/misc/virtualizationservice">>

\* format!("{}/{}", TEMPORARY_DIRECTORY, cid)
TemporaryDirectory(cid) == TEMPORARY_DIRECTORY \o <<"/">> \o FormatU32(cid)

\* Path::join with a file name
Join(dir, name) == dir \o <<"/">> \o name

\* names that do not carry the counter value
MakeCompositeImageFilenamesFixed(temporary_directory, id) ==
    [composite |-> Join(temporary_directory, <<"composite", ".img">>),
     header    |-> Join(temporary_directory, <<"composite", "-header.img">>),
     footer    |-> Join(temporary_directory, <<"composite", "-footer.img">>)]

\* make_composite_image_filenames: the three names made from counter value id
MakeCompositeImageFilenames(temporary_directory, id) ==
    LET n == FormatU32(U32FromNat(id))
    IN  [composite |-> Join(temporary_directory, <<"composite-">> \o n \o <<".img">>),
         header    |-> Join(temporary_directory, <<"composite-">> \o n \o <<"-header.img">>),
         footer    |-> Join(temporary_directory, <<"composite-">> \o n \o <<"-footer.img">>)]

\* A point at which the environment makes a createVm call fail: a stage, and
\* for a per-disk stage the index of the disk.
NoFail == [stage |-> "none", disk |-> 0]

Fails(fail, stage, k) == fail.stage = stage /\ fail.disk = k

\* a hand-over that keeps only the partition files of the last composite disk
ExtendIndirectFilesReplace(indirect_files, partition_files) == partition_files

\* indirect_files.extend(partition_files)
ExtendIndirectFiles(indirect_files, partition_files) ==
    indirect_files \o partition_files

\* an assembly that takes a counter value for an image-only disk too
AssembleDiskImageCounts(disk, k, zero_filler_path, dir, st, fail) ==
    IF disk.partitions > 0 THEN
        IF disk.image
        THEN [st EXCEPT !.status = "ILLEGAL_ARGUMENT"]
        ELSE IF Fails(fail, "composite", k)
        THEN [st EXCEPT !.status = "SERVICE_SPECIFIC", !.next_id = st.next_id + 1]
        ELSE LET f == MakeCompositeImageFilenames(dir, st.next_id)
             IN  [st EXCEPT !.next_id = st.next_id + 1,
                            !.files = st.files \cup {f.composite, f.header, f.footer},
                            !.indirect = ExtendIndirectFiles(st.indirect,
                                [p \in 1..disk.partitions |-> [disk |-> k, part |-> p]]),
                            !.disks = Append(st.disks,
                                [kind |-> "composite", id |-> st.next_id,
                                 writable |-> disk.writable,
                                 zero_filler |-> zero_filler_path])]
    ELSE IF disk.image THEN
        IF Fails(fail, "clone", k)
        THEN [st EXCEPT !.status = "BAD_PARCELABLE"]
        ELSE [st EXCEPT !.next_id = st.next_id + 1,
                        !.disks = Append(st.disks,
                  [kind |-> "image", id |-> k, writable |-> disk.writable])]
    ELSE [st EXCEPT !.status = "ILLEGAL_ARGUMENT"]

\* an assembly that makes a zero filler of its own for each composite disk
AssembleDiskImageOwnFiller(disk, k, zero_filler_path, dir, st, fail) ==
    IF disk.partitions > 0 THEN
        IF disk.image
        THEN [st EXCEPT !.status = "ILLEGAL_ARGUMENT"]
        ELSE IF Fails(fail, "composite", k)
        THEN [st EXCEPT !.status = "SERVICE_SPECIFIC", !.next_id = st.next_id + 1]
        ELSE LET f == MakeCompositeImageFilenames(dir, st.next_id)
                 own == Join(dir, <<"zero-">> \o FormatU32(U32FromNat(st.next_id))
                                     \o <<".img">>)
             IN  [st EXCEPT !.next_id = st.next_id + 1,
                            !.files = st.files \cup {f.composite, f.header, f.footer, own},
                            !.indirect = ExtendIndirectFiles(st.indirect,
                                [p \in 1..disk.partitions |-> [disk |-> k, part |-> p]]),
                            !.disks = Append(st.disks,
                                [kind |-> "composite", id |-> st.next_id,
                                 writable |-> disk.writable,
                                 zero_filler |-> own])]
    ELSE IF disk.image THEN
        IF Fails(fail, "clone", k)
        THEN [st EXCEPT !.status = "BAD_PARCELABLE"]
        ELSE [st EXCEPT !.disks = Append(st.disks,
                  [kind |-> "image", id |-> k, writable |-> disk.writable])]
    ELSE [st EXCEPT !.status = "ILLEGAL_ARGUMENT"]

\* assemble_disk_image for disk number k of the configuration.  st carries
\* next_temporary_image_id, indirect_files and the files created so far.
AssembleDiskImage(disk, k, zero_filler_path, dir, st, fail) ==
    IF disk.partitions > 0 THEN
        IF disk.image
        THEN [st EXCEPT !.status = "ILLEGAL_ARGUMENT"]
        ELSE IF Fails(fail, "composite", k)
        THEN [st EXCEPT !.status = "SERVICE_SPECIFIC", !.next_id = st.next_id + 1]
        ELSE LET f == MakeCompositeImageFilenames(dir, st.next_id)
             IN  [st EXCEPT !.next_id = st.next_id + 1,
                            !.files = st.files \cup {f.composite, f.header, f.footer},
                            !.indirect = ExtendIndirectFiles(st.indirect,
                                [p \in 1..disk.partitions |-> [disk |-> k, part |-> p]]),
                            !.disks = Append(st.disks,
                                [kind |-> "composite", id |-> st.next_id,
                                 writable |-> disk.writable,
                                 zero_filler |-> zero_filler_path])]
    ELSE IF disk.image THEN
        IF Fails(fail, "clone", k)
        THEN [st EXCEPT !.status = "BAD_PARCELABLE"]
        ELSE [st EXCEPT !.disks = Append(st.disks,
                  [kind |-> "image", id |-> k, writable |-> disk.writable])]
    ELSE [st EXCEPT !.status = "ILLEGAL_ARGUMENT"]

\* config.disks.iter().map(assemble_disk_image).collect::<Result<..>>():
\* in order, stopping at the first error
RECURSIVE AssembleAll(_, _, _, _, _, _)
AssembleAll(disks, k, zero_filler_path, dir, st, fail) ==
    IF k > Len(disks) \/ st.status # "OK" THEN st
    ELSE AssembleAll(disks, k + 1, zero_filler_path, dir,
                     AssembleDiskImage(disks[k], k, zero_filler_path, dir, st, fail),
                     fail)

(***************************************************************************)
(* Permission checks.  A caller is its uid and what the permission         *)
(* controller answers for the two permissions.                             *)
(***************************************************************************)
\* a check that lets every caller through
CheckPermissionAllows(caller, perm) == "OK"

\* check_permission: root passes, others are asked about at the permission
\* controller
CheckPermission(caller, perm) ==
    IF caller.uid = 0 THEN "OK"
    ELSE IF caller[perm] THEN "OK" ELSE "SECURITY"

CheckManageAccess(caller) == CheckPermission(caller, "manage")

CheckDebugAccess(caller) == CheckPermission(caller, "debug")

(***************************************************************************)
(* State.                                                                  *)
(***************************************************************************)
VARIABLES
    sysprop,         \* the system property SYSPROP_LAST_CID, NoProp when unset
    issued,          \* the CIDs next_cid has returned, in order
    fs,              \* the paths created under TEMPORARY_DIRECTORY
    vms,             \* State.vms: Weak<VmInstance>, as instance numbers
    debug_held_vms,  \* State.debug_held_vms, as instance numbers
    persist,         \* the last force_lazy_services_persist argument
    inst,            \* the VmInstance objects created so far
    held,            \* held[i]: client-side Strong<dyn IVirtualMachine> of i
    regLock,         \* the thread inside the State mutex, 0 when free
    cbLock,          \* cbLock[i]: the thread inside instance i's callbacks mutex
    pc, call,        \* binder threads of VirtualMachineService
    conn,            \* the connection the stream listener is handling
    nconn,           \* connections accepted so far
    ret              \* the last completed facade call: what it returned, and
                     \* for createVm the disks asked for and the stage that
                     \* failed

vars == <<sysprop, issued, fs, vms, debug_held_vms, persist, inst, held,
          regLock, cbLock, pc, call, conn, nconn, ret>>

Threads == 1..NThreads

Insts == 1..Len(inst)

InHandler(t) == pc[t] \in {"update", "take", "lock_callbacks", "fanout"}

\* Strong<dyn IVirtualMachine> references to the VirtualMachine binder object
BinderRefs(i) ==
    held[i] + Cardinality({k \in 1..Len(debug_held_vms) : debug_held_vms[k] = i})

\* Arc<VmInstance> strong count: the VirtualMachine object while it exists,
\* and the Arc each running handler got from get_vm
StrongCount(i) ==
    (IF BinderRefs(i) > 0 THEN 1 ELSE 0)
    + Cardinality({t \in Threads : InHandler(t) /\ call[t].vm = i})

\* a State::vms that does not try to upgrade
VmsNoUpgrade == vms

\* State::vms: the entries whose Weak::upgrade succeeds
Vms == SelectSeq(vms, LAMBDA i : StrongCount(i) > 0)

\* a get_vm that takes the first upgraded entry, whatever its cid
GetVmAny(cid) ==
    LET l == Vms
    IN  IF l = <<>> THEN 0 ELSE l[1]

\* State::get_vm: the first upgraded entry with this cid, 0 for None
GetVm(cid) ==
    LET l == Vms
        hits == {k \in 1..Len(l) : inst[l[k]].cid = cid}
    IN  IF hits = {} THEN 0
        ELSE l[CHOOSE k \in hits : \A j \in hits : k <= j]

\* an add_vm that only pushes
AddVmNoRetain(i) == Append(vms, i)

\* an add_vm that prunes and does not push
AddVmForget(i) == SelectSeq(vms, LAMBDA j : StrongCount(j) > 0)

\* State::add_vm: retain the entries with strong_count() > 0, then push
AddVm(i) == Append(SelectSeq(vms, LAMBDA j : StrongCount(j) > 0), i)

(***************************************************************************)
(* VmInstance (crosvm.rs).                                                 *)
(***************************************************************************)
\* VmInstance::new: not started, payload starting, no stream, no callbacks
NewVmInstance(cid, dir, disks, indirect) ==
    [cid |-> cid, vm_state |-> "NotStarted", payload_state |-> "Starting",
     stream |-> 0, callbacks |-> <<>>, temporary_directory |-> dir,
     disks |-> disks, indirect_files |-> indirect]

\* PayloadState: Starting < Started < Ready < Finished
PayloadRank(p) ==
    CASE p = "Starting" -> 0 [] p = "Started" -> 1
      [] p = "Ready" -> 2 [] p = "Finished" -> 3

\* VmInstance::update_payload_state accepts new_state from state cur
UpdatePayloadStateOk(cur, new_state) == PayloadRank(new_state) = PayloadRank(cur) + 1

\* VmInstance::kill
Kill(vm_state) == IF vm_state \in {"NotStarted", "Running"} THEN "Dead" ELSE vm_state

\* a get_state that shows a failed launch as not started
GetStateFailed(vm) ==
    CASE vm.vm_state = "NotStarted" -> "NOT_STARTED"
      [] vm.vm_state = "Running" ->
            (CASE vm.payload_state = "Starting" -> "STARTING"
               [] vm.payload_state = "Started" -> "STARTED"
               [] vm.payload_state = "Ready" -> "READY"
               [] vm.payload_state = "Finished" -> "FINISHED")
      [] vm.vm_state = "Dead" -> "DEAD"
      [] vm.vm_state = "Failed" -> "NOT_STARTED"

\* get_state
GetState(vm) ==
    CASE vm.vm_state = "NotStarted" -> "NOT_STARTED"
      [] vm.vm_state = "Running" ->
            (CASE vm.payload_state = "Starting" -> "STARTING"
               [] vm.payload_state = "Started" -> "STARTED"
               [] vm.payload_state = "Ready" -> "READY"
               [] vm.payload_state = "Finished" -> "FINISHED")
      [] vm.vm_state = "Dead" -> "DEAD"
      [] vm.vm_state = "Failed" -> "DEAD"

(***************************************************************************)
(* createVm.                                                               *)
(***************************************************************************)
\* What one createVm call does, up to the point where it fails or reaches
\* add_vm: the status returned, the property and the files it leaves, the CID
\* it took and, on success, the disks and indirect files of the new instance.
CreateVmOutcome(caller, config, fail) ==
    LET none == [status |-> "OK", sysprop |-> sysprop, fs |-> fs, cid |-> NoValue,
                 disks |-> <<>>, indirect |-> <<>>, next_id |-> 0]
        perm == CheckManageAccess(caller)
        next == NextCidValue(sysprop)
        dir  == TemporaryDirectory(next)
        zero == Join(dir, <<"zero.img">>)
        got  == [none EXCEPT !.sysprop = FormatU32(next), !.cid = next]
        made == [got EXCEPT !.fs = fs \cup {dir}]
        fill == [made EXCEPT !.fs = fs \cup {dir, zero}]
        asm  == AssembleAll(config.disks, 1, zero, dir,
                    [status |-> "OK", next_id |-> 0, indirect |-> <<>>,
                     files |-> {}, disks |-> <<>>], fail)
        done == [fill EXCEPT !.status = asm.status, !.fs = fill.fs \cup asm.files,
                             !.disks = asm.disks, !.indirect = asm.indirect,
                             !.next_id = asm.next_id]
    IN  IF caller.uid # 0 /\ Fails(fail, "permission_service", 0)
            THEN [none EXCEPT !.status = "TRANSACTION_FAILED"]
        ELSE IF perm # "OK" THEN [none EXCEPT !.status = perm]
        ELSE IF config.log_fd /\ Fails(fail, "log_fd", 0)
            THEN [none EXCEPT !.status = "BAD_PARCELABLE"]
        ELSE IF Fails(fail, "sid", 0) THEN [none EXCEPT !.status = "SECURITY"]
        ELSE IF next = NoValue THEN [none EXCEPT !.status = "ILLEGAL_STATE"]
        ELSE IF Fails(fail, "property_write", 0)
            THEN [none EXCEPT !.status = "ILLEGAL_STATE"]
        ELSE IF dir \in fs \/ Fails(fail, "create_dir", 0)
            THEN [got EXCEPT !.status = "SERVICE_SPECIFIC"]
        ELSE IF config.kind = "app" /\ Fails(fail, "load_app_config", 0)
            THEN [made EXCEPT !.status = "SERVICE_SPECIFIC"]
        ELSE IF zero \in fs \/ Fails(fail, "zero_filler_open", 0)
            THEN [made EXCEPT !.status = "SERVICE_SPECIFIC"]
        ELSE IF Fails(fail, "zero_filler_set_len", 0)
            THEN [fill EXCEPT !.status = "SERVICE_SPECIFIC"]
        ELSE IF asm.status # "OK" THEN done
        ELSE IF Fails(fail, "boot_files", 0)
            THEN [done EXCEPT !.status = "BAD_PARCELABLE"]
        ELSE IF Fails(fail, "vm_instance_new", 0)
            THEN [done EXCEPT !.status = "SERVICE_SPECIFIC"]
        ELSE done

\* a disk of the configuration declares an image and partitions
HasBoth(config) ==
    \E k \in 1..Len(config.disks) :
        config.disks[k].image /\ config.disks[k].partitions > 0

\* VirtualizationService::createVm.  The State mutex is taken right after the
\* permission check and held to the end of the call.
CreateVm(caller, config, fail) ==
    \E out \in {CreateVmOutcome(caller, config, fail)} :
    LET i == Len(inst) + 1
    IN  /\ (CheckManageAccess(caller) = "OK"
              /\ ~(caller.uid # 0 /\ Fails(fail, "permission_service", 0)))
           => regLock = 0
        /\ sysprop' = out.sysprop
        /\ fs' = out.fs
        /\ issued' = IF out.cid = NoValue THEN issued ELSE Append(issued, out.cid)
        /\ IF out.status = "OK"
           THEN /\ inst' = Append(inst, NewVmInstance(out.cid, TemporaryDirectory(out.cid),
                                                      out.disks, out.indirect))
                /\ vms' = AddVm(i)
                /\ held' = Append(held, 1)
                /\ cbLock' = Append(cbLock, 0)
           ELSE UNCHANGED <<inst, vms, held, cbLock>>
        /\ ret' = [op |-> "createVm", status |-> out.status,
                   vm |-> IF out.status = "OK" THEN i ELSE 0,
                   cid |-> out.cid, both |-> HasBoth(config),
                   created |-> out.fs \ fs, next_id |-> out.next_id,
                   disks |-> config.disks, fail |-> fail.stage]
        /\ UNCHANGED <<debug_held_vms, persist, regLock, pc, call, conn, nconn>>

\* format_as_android_vm_instance: what is written to the partition, in
\* order: the magic string, then the version as u16::to_le_bytes
FormatAsAndroidVmInstance ==
    LET ANDROID_VM_INSTANCE_MAGIC == "Android-VM-instance"
        ANDROID_VM_INSTANCE_VERSION == 1
    IN  <<ANDROID_VM_INSTANCE_MAGIC,
          ANDROID_VM_INSTANCE_VERSION % 256, ANDROID_VM_INSTANCE_VERSION \div 256>>

\* VirtualizationService::initializeWritablePartition: the image the caller
\* passed becomes an empty QCOW2 image of the given size, with the instance
\* header for ANDROID_VM_INSTANCE; created tells whether QcowFile::new works.
\* The reply is kept with the size and the type asked for and with what was
\* written into the partition.
InitializeWritablePartition(caller, size, partition_type, created) ==
    /\ \E out \in {IF CheckManageAccess(caller) # "OK"
                    THEN [status |-> CheckManageAccess(caller), image |-> "untouched",
                          written |-> <<>>]
                    ELSE IF size < 0
                    THEN [status |-> "ILLEGAL_ARGUMENT", image |-> "untouched",
                          written |-> <<>>]
                    ELSE IF ~created
                    THEN [status |-> "SERVICE_SPECIFIC", image |-> "untouched",
                          written |-> <<>>]
                    ELSE IF partition_type = "RAW"
                    THEN [status |-> "OK", image |-> "qcow", written |-> <<>>]
                    ELSE IF partition_type = "ANDROID_VM_INSTANCE"
                    THEN [status |-> "OK", image |-> "qcow with instance header",
                          written |-> FormatAsAndroidVmInstance]
                    ELSE [status |-> "SERVICE_SPECIFIC", image |-> "qcow",
                          written |-> <<>>]} :
          ret' = [op |-> "initializeWritablePartition", status |-> out.status,
                  image |-> out.image, written |-> out.written,
                  size |-> size, partition_type |-> partition_type]
    /\ UNCHANGED <<sysprop, issued, fs, vms, debug_held_vms, persist, inst, held,
                   regLock, cbLock, pc, call, conn, nconn>>

(***************************************************************************)
(* The VM handle (IVirtualMachine) and the debug calls.                    *)
(***************************************************************************)
SetInst(i, field, value) == [inst EXCEPT ![i][field] = value]

\* a drop that kills at every release of a handle
ReleaseHandleAlwaysKills(i) ==
    /\ i \in Insts /\ held[i] > 0
    /\ held' = [held EXCEPT ![i] = held[i] - 1]
    /\ inst' = SetInst(i, "vm_state", Kill(inst[i].vm_state))
    /\ UNCHANGED <<sysprop, issued, fs, vms, debug_held_vms, persist, regLock,
                   cbLock, pc, call, conn, nconn, ret>>

\* a drop that marks the instance Dead whatever state it is in
ReleaseHandleMarkDead(i) ==
    /\ i \in Insts /\ held[i] > 0
    /\ held' = [held EXCEPT ![i] = held[i] - 1]
    /\ inst' = IF BinderRefs(i) = 1 THEN SetInst(i, "vm_state", "Dead") ELSE inst
    /\ UNCHANGED <<sysprop, issued, fs, vms, debug_held_vms, persist, regLock,
                   cbLock, pc, call, conn, nconn, ret>>

\* The client drops a Strong<dyn IVirtualMachine>.  With the last reference
\* gone the VirtualMachine object is dropped: Drop calls instance.kill().
ReleaseHandle(i) ==
    /\ i \in Insts /\ held[i] > 0
    /\ held' = [held EXCEPT ![i] = held[i] - 1]
    /\ inst' = IF BinderRefs(i) = 1
               THEN SetInst(i, "vm_state", Kill(inst[i].vm_state))
               ELSE inst
    /\ UNCHANGED <<sysprop, issued, fs, vms, debug_held_vms, persist, regLock,
                   cbLock, pc, call, conn, nconn, ret>>

\* a start that launches whatever state the instance is in
StartAgain(i, launched) ==
    /\ i \in Insts /\ held[i] > 0
    /\ inst' = SetInst(i, "vm_state", IF launched THEN "Running" ELSE "Failed")
    /\ ret' = [op |-> "start", vm |-> i,
               status |-> IF launched THEN "OK" ELSE "SERVICE_SPECIFIC"]
    /\ UNCHANGED <<sysprop, issued, fs, vms, debug_held_vms, persist, held, regLock,
                   cbLock, pc, call, conn, nconn>>

\* VirtualMachine::start; launched tells whether crosvm could be spawned
Start(i, launched) ==
    /\ i \in Insts /\ held[i] > 0
    /\ IF inst[i].vm_state = "NotStarted"
       THEN /\ inst' = SetInst(i, "vm_state", IF launched THEN "Running" ELSE "Failed")
            /\ ret' = [op |-> "start", vm |-> i,
                       status |-> IF launched THEN "OK" ELSE "SERVICE_SPECIFIC"]
       ELSE /\ inst' = inst
            /\ ret' = [op |-> "start", vm |-> i, status |-> "SERVICE_SPECIFIC"]
    /\ UNCHANGED <<sysprop, issued, fs, vms, debug_held_vms, persist, held, regLock,
                   cbLock, pc, call, conn, nconn>>

\* VirtualMachine::getState
GetStateCall(i) ==
    /\ i \in Insts /\ held[i] > 0
    /\ ret' = [op |-> "getState", vm |-> i, status |-> "OK",
               state |-> GetState(inst[i])]
    /\ UNCHANGED <<sysprop, issued, fs, vms, debug_held_vms, persist, inst, held,
                   regLock, cbLock, pc, call, conn, nconn>>

\* VirtualMachine::connectVsock; connected tells whether the vsock connect
\* to the guest worked
ConnectVsock(i, connected) ==
    /\ i \in Insts /\ held[i] > 0
    /\ ret' = IF inst[i].vm_state # "Running"
              THEN [op |-> "connectVsock", vm |-> i, status |-> "SERVICE_SPECIFIC",
                    opened |-> FALSE]
              ELSE IF connected
              THEN [op |-> "connectVsock", vm |-> i, status |-> "OK", opened |-> TRUE]
              ELSE [op |-> "connectVsock", vm |-> i, status |-> "SERVICE_SPECIFIC",
                    opened |-> FALSE]
    /\ UNCHANGED <<sysprop, issued, fs, vms, debug_held_vms, persist, inst, held,
                   regLock, cbLock, pc, call, conn, nconn>>

\* The crosvm child of a running instance exits: the instance is Dead and
\* callback_on_died calls onDied on every listener.
ChildExit(i) ==
    /\ i \in Insts /\ inst[i].vm_state = "Running"
    /\ cbLock[i] = 0
    /\ inst' = SetInst(i, "vm_state", "Dead")
    /\ ret' = [op |-> "onDied", vm |-> i, status |-> "OK",
               delivered |-> [k \in 1..Len(inst[i].callbacks) |->
                                [listener |-> inst[i].callbacks[k],
                                 event |-> "onDied",
                                 cid |-> U32AsI32(inst[i].cid)]]]
    /\ UNCHANGED <<sysprop, issued, fs, vms, debug_held_vms, persist, held, regLock,
                   cbLock, pc, call, conn, nconn>>

\* an add that puts the new listener in front
CallbacksAddFront(callbacks, l) == <<l>> \o callbacks

\* VirtualMachineCallbacks::add
CallbacksAdd(callbacks, l) == Append(callbacks, l)

\* VirtualMachine::registerCallback: waits for the callbacks mutex
RegisterCallback(i, l) ==
    /\ i \in Insts /\ held[i] > 0
    /\ cbLock[i] = 0
    /\ inst' = SetInst(i, "callbacks", CallbacksAdd(inst[i].callbacks, l))
    /\ UNCHANGED <<sysprop, issued, fs, vms, debug_held_vms, persist, held, regLock,
                   cbLock, pc, call, conn, nconn, ret>>

\* the VirtualMachineDebugInfo of an instance (cid and state)
DebugInfo(i) == [cid |-> U32AsI32(inst[i].cid), state |-> GetState(inst[i])]

\* a listing made from the stored list without upgrading
DebugListNoUpgrade == [k \in 1..Len(vms) |-> DebugInfo(vms[k])]

\* the list debugListVms returns
DebugList == LET l == Vms IN [k \in 1..Len(l) |-> DebugInfo(l[k])]

\* VirtualizationService::debugListVms
DebugListVms(caller) ==
    /\ IF CheckDebugAccess(caller) # "OK"
       THEN ret' = [op |-> "debugListVms", status |-> CheckDebugAccess(caller),
                    list |-> <<>>]
       ELSE /\ regLock = 0
            /\ ret' = [op |-> "debugListVms", status |-> "OK", list |-> DebugList]
    /\ UNCHANGED <<sysprop, issued, fs, vms, debug_held_vms, persist, inst, held,
                   regLock, cbLock, pc, call, conn, nconn>>

\* VirtualizationService::debugHoldVmRef and State::debug_hold_vm
DebugHoldVmRef(caller, i) ==
    /\ i \in Insts /\ held[i] > 0
    /\ IF CheckDebugAccess(caller) # "OK"
       THEN /\ ret' = [op |-> "debugHoldVmRef", status |-> CheckDebugAccess(caller)]
            /\ UNCHANGED <<debug_held_vms, persist>>
       ELSE /\ regLock = 0
            /\ debug_held_vms' = Append(debug_held_vms, i)
            /\ persist' = TRUE
            /\ ret' = [op |-> "debugHoldVmRef", status |-> "OK"]
    /\ UNCHANGED <<sysprop, issued, fs, vms, inst, held, regLock, cbLock, pc, call,
                   conn, nconn>>

\* a removal that leaves the vector as it is
SwapRemoveKeep(v, pos) == v

\* Vec::swap_remove(pos): the last element takes the place of the removed one
SwapRemove(v, pos) ==
    [k \in 1..(Len(v) - 1) |-> IF k = pos THEN v[Len(v)] ELSE v[k]]

\* a drop that never lets the process go
PersistAfterDropKeep(left) == persist

\* if self.debug_held_vms.is_empty() { force_lazy_services_persist(false) }
PersistAfterDrop(left) == IF left = <<>> THEN FALSE ELSE persist

\* VirtualizationService::debugDropVmRef and State::debug_drop_vm; the handle
\* found goes back to the caller
DebugDropVmRef(caller, cid) ==
    LET hits == {k \in 1..Len(debug_held_vms) :
                    U32AsI32(inst[debug_held_vms[k]].cid) = cid}
        pos  == CHOOSE k \in hits : \A j \in hits : k <= j
    IN  /\ IF CheckDebugAccess(caller) # "OK"
           THEN /\ ret' = [op |-> "debugDropVmRef", vm |-> 0,
                           status |-> CheckDebugAccess(caller)]
                /\ UNCHANGED <<debug_held_vms, persist, held>>
           ELSE /\ regLock = 0
                /\ IF hits = {}
                   THEN /\ ret' = [op |-> "debugDropVmRef", vm |-> 0, status |-> "OK"]
                        /\ UNCHANGED <<debug_held_vms, persist, held>>
                   ELSE /\ debug_held_vms' = SwapRemove(debug_held_vms, pos)
                        /\ persist' = PersistAfterDrop(SwapRemove(debug_held_vms, pos))
                        /\ held' = [held EXCEPT ![debug_held_vms[pos]] = @ + 1]
                        /\ ret' = [op |-> "debugDropVmRef", vm |-> debug_held_vms[pos],
                                   status |-> "OK"]
        /\ UNCHANGED <<sysprop, issued, fs, vms, inst, regLock, cbLock, pc, call,
                       conn, nconn>>

(***************************************************************************)
(* The stream listener (handle_stream_connection_from_vm).                 *)
(***************************************************************************)
\* The listener between two connections: what it did with the last one.
NoConn == [state |-> "none", cid |-> U32(0, 0), stream |-> 0, vm |-> 0, prev |-> 0]

\* the loop is at listener.incoming(): it has not returned, and the last
\* stream was dealt with
AtIncoming == conn.state \notin {"accepted", "stopped"}

\* a loop that returns the error of an invalid connection
BridgeAcceptInvalidStops ==
    /\ AtIncoming
    /\ nconn' = nconn + 1
    /\ conn' = [NoConn EXCEPT !.state = "stopped"]
    /\ UNCHANGED <<sysprop, issued, fs, vms, debug_held_vms, persist, inst, held,
                   regLock, cbLock, pc, call, ret>>

\* listener.incoming() yields an error, or a stream without a vsock peer
\* address: logged or ignored, and the loop goes on
BridgeAcceptInvalid ==
    /\ AtIncoming
    /\ nconn' = nconn + 1
    /\ conn' = [NoConn EXCEPT !.state = "invalid"]
    /\ UNCHANGED <<sysprop, issued, fs, vms, debug_held_vms, persist, inst, held,
                   regLock, cbLock, pc, call, ret>>

\* a stream from a peer with this CID is accepted
BridgeAccept(cid) ==
    /\ AtIncoming
    /\ nconn' = nconn + 1
    /\ conn' = [NoConn EXCEPT !.state = "accepted", !.cid = cid, !.stream = nconn + 1]
    /\ UNCHANGED <<sysprop, issued, fs, vms, debug_held_vms, persist, inst, held,
                   regLock, cbLock, pc, call, ret>>

\* an attach that keeps a stream already in the slot
AttachKeep(slot, stream) == IF slot = 0 THEN stream ELSE slot

\* *vm.stream.lock().unwrap() = Some(stream)
Attach(slot, stream) == stream

\* state.lock().unwrap().get_vm(cid), then the stream is stored in the
\* instance found, or dropped with an error line in the log
BridgeAttach ==
    /\ conn.state = "accepted"
    /\ regLock = 0
    /\ LET vm == GetVm(conn.cid)
       IN  IF vm # 0
           THEN /\ inst' = SetInst(vm, "stream", Attach(inst[vm].stream, conn.stream))
                /\ conn' = [conn EXCEPT !.state = "attached", !.vm = vm,
                                        !.prev = inst[vm].stream]
           ELSE /\ inst' = inst
                /\ conn' = [conn EXCEPT !.state = "dropped"]
    /\ UNCHANGED <<sysprop, issued, fs, vms, debug_held_vms, persist, held, regLock,
                   cbLock, pc, call, nconn, ret>>

(***************************************************************************)
(* VirtualMachineService: notifyPayloadStarted / Ready / Finished.         *)
(***************************************************************************)
NotifyOps == {"notifyPayloadStarted", "notifyPayloadReady", "notifyPayloadFinished"}

Target(op) ==
    CASE op = "notifyPayloadStarted" -> "Started"
      [] op = "notifyPayloadReady" -> "Ready"
      [] op = "notifyPayloadFinished" -> "Finished"

Event(op) ==
    CASE op = "notifyPayloadStarted" -> "onPayloadStarted"
      [] op = "notifyPayloadReady" -> "onPayloadReady"
      [] op = "notifyPayloadFinished" -> "onPayloadFinished"

IdleCall == [op |-> "none", cid |-> 0, code |-> 0, vm |-> 0, stream |-> 0,
             delivered |-> <<>>, status |-> "none", seen |-> "none"]

\* the payload state of the instance a call for this cid would find
SeenState(cid) ==
    LET vm == GetVm(I32AsU32(cid))
    IN  IF vm = 0 THEN "none" ELSE inst[vm].payload_state

\* what is kept of a call once it has returned: its arguments and its status
Reply(c, status) ==
    [IdleCall EXCEPT !.op = c.op, !.cid = c.cid, !.code = c.code, !.seen = c.seen,
                     !.status = status]

\* a lookup whose State guard is dropped as soon as get_vm has returned
EnterUnlocked(t, c) ==
    /\ regLock = 0
    /\ LET vm == GetVm(I32AsU32(c.cid))
       IN  IF vm = 0
           THEN /\ pc' = [pc EXCEPT ![t] = "done"]
                /\ call' = [call EXCEPT ![t] = Reply(c, "SERVICE_SPECIFIC")]
           ELSE /\ pc' = [pc EXCEPT ![t] = "update"]
                /\ call' = [call EXCEPT ![t] = [c EXCEPT !.vm = vm]]
    /\ UNCHANGED <<sysprop, issued, fs, vms, debug_held_vms, persist, inst, held,
                   regLock, cbLock, conn, nconn, ret>>

\* self.state.lock().unwrap().get_vm(cid) for the call c: the guard lives to
\* the end of the if-let, so a found instance is handled with the State mutex
\* held; an unknown cid is answered at once
Enter(t, c) ==
    /\ regLock = 0
    /\ LET vm == GetVm(I32AsU32(c.cid))
       IN  IF vm = 0
           THEN /\ pc' = [pc EXCEPT ![t] = "done"]
                /\ call' = [call EXCEPT ![t] = Reply(c, "SERVICE_SPECIFIC")]
                /\ regLock' = 0
           ELSE /\ pc' = [pc EXCEPT ![t] = "update"]
                /\ call' = [call EXCEPT ![t] = [c EXCEPT !.vm = vm]]
                /\ regLock' = t
    /\ UNCHANGED <<sysprop, issued, fs, vms, debug_held_vms, persist, inst, held,
                   cbLock, conn, nconn, ret>>

NewCall(op, cid, code) ==
    [IdleCall EXCEPT !.op = op, !.cid = cid, !.code = code, !.seen = SeenState(cid)]

\* a guest calls op(cid[, exit_code]) while the State mutex is taken: the
\* binder thread serving the call waits for it
NotifyCall(t, op, cid, code) ==
    /\ pc[t] = "idle"
    /\ regLock # 0
    /\ pc' = [pc EXCEPT ![t] = "wait"]
    /\ call' = [call EXCEPT ![t] = NewCall(op, cid, code)]
    /\ UNCHANGED <<sysprop, issued, fs, vms, debug_held_vms, persist, inst, held,
                   regLock, cbLock, conn, nconn, ret>>

\* the waiting thread gets the State mutex
NotifyEnter(t) == pc[t] = "wait" /\ Enter(t, call[t])

\* a guest calls op(cid[, exit_code]) and the thread gets the State mutex at
\* once
NotifyArrive(t, op, cid, code) == pc[t] = "idle" /\ Enter(t, NewCall(op, cid, code))

\* a handler that takes the stream for every notification
AfterUpdateTake(op) == "take"

\* what follows a successful update_payload_state
AfterUpdate(op) == IF op = "notifyPayloadStarted" THEN "take" ELSE "lock_callbacks"

\* a handler that goes on to the callbacks whatever update_payload_state says
NotifyUpdateIgnoreError(t) ==
    /\ pc[t] = "update"
    /\ inst' = IF UpdatePayloadStateOk(inst[call[t].vm].payload_state, Target(call[t].op))
               THEN SetInst(call[t].vm, "payload_state", Target(call[t].op))
               ELSE inst
    /\ pc' = [pc EXCEPT ![t] = AfterUpdate(call[t].op)]
    /\ UNCHANGED <<sysprop, issued, fs, vms, debug_held_vms, persist, held, regLock,
                   cbLock, call, conn, nconn, ret>>

\* a handler that stores the target state before it reports the error
NotifyUpdateSetAnyway(t) ==
    /\ pc[t] = "update"
    /\ inst' = SetInst(call[t].vm, "payload_state", Target(call[t].op))
    /\ IF UpdatePayloadStateOk(inst[call[t].vm].payload_state, Target(call[t].op))
       THEN /\ pc' = [pc EXCEPT ![t] = AfterUpdate(call[t].op)]
            /\ UNCHANGED <<call, regLock>>
       ELSE /\ pc' = [pc EXCEPT ![t] = "done"]
            /\ call' = [call EXCEPT ![t] = Reply(call[t], "ILLEGAL_STATE")]
            /\ regLock' = 0
    /\ UNCHANGED <<sysprop, issued, fs, vms, debug_held_vms, persist, held, cbLock,
                   conn, nconn, ret>>

\* vm.update_payload_state(target).map_err(ILLEGAL_STATE)?
NotifyUpdate(t) ==
    /\ pc[t] = "update"
    /\ IF UpdatePayloadStateOk(inst[call[t].vm].payload_state, Target(call[t].op))
       THEN /\ inst' = SetInst(call[t].vm, "payload_state", Target(call[t].op))
            /\ pc' = [pc EXCEPT ![t] = AfterUpdate(call[t].op)]
            /\ UNCHANGED <<call, regLock>>
       ELSE /\ pc' = [pc EXCEPT ![t] = "done"]
            /\ call' = [call EXCEPT ![t] = Reply(call[t], "ILLEGAL_STATE")]
            /\ regLock' = 0
            /\ inst' = inst
    /\ UNCHANGED <<sysprop, issued, fs, vms, debug_held_vms, persist, held, cbLock,
                   conn, nconn, ret>>

\* a take that leaves the stream in the slot
TakeStreamKeep(slot) == slot

\* what Option::take leaves in the slot
TakeStream(slot) == 0

\* let stream = vm.stream.lock().unwrap().take()
NotifyTake(t) ==
    /\ pc[t] = "take"
    /\ call' = [call EXCEPT ![t].stream = inst[call[t].vm].stream]
    /\ inst' = SetInst(call[t].vm, "stream", TakeStream(inst[call[t].vm].stream))
    /\ pc' = [pc EXCEPT ![t] = "lock_callbacks"]
    /\ UNCHANGED <<sysprop, issued, fs, vms, debug_held_vms, persist, held, regLock,
                   cbLock, conn, nconn, ret>>

\* notify_payload_*: let callbacks = &*self.0.lock().unwrap()
NotifyLockCallbacks(t) ==
    /\ pc[t] = "lock_callbacks"
    /\ cbLock[call[t].vm] = 0
    /\ cbLock' = [cbLock EXCEPT ![call[t].vm] = t]
    /\ pc' = [pc EXCEPT ![t] = "fanout"]
    /\ UNCHANGED <<sysprop, issued, fs, vms, debug_held_vms, persist, inst, held,
                   regLock, call, conn, nconn, ret>>

\* the call made on one listener
Invocation(c, l, ok) ==
    [listener |-> l, event |-> Event(c.op), cid |-> U32AsI32(I32AsU32(c.cid)),
     stream |-> c.stream, code |-> c.code, ok |-> ok]

\* the listener the loop calls next, 0 when the loop is over
NextCallbackStopOnError(t) ==
    LET n == Len(call[t].delivered)
    IN  IF n > 0 /\ ~call[t].delivered[n].ok THEN 0
        ELSE IF n < Len(inst[call[t].vm].callbacks) THEN n + 1 ELSE 0

NextCallbackBackwards(t) ==
    LET n == Len(call[t].delivered)
        m == Len(inst[call[t].vm].callbacks)
    IN  IF n < m THEN m - n ELSE 0

NextCallback(t) ==
    LET n == Len(call[t].delivered)
    IN  IF n < Len(inst[call[t].vm].callbacks) THEN n + 1 ELSE 0

\* one turn of `for callback in callbacks`: the listener answers ok or fails,
\* a failure is logged
NotifyInvoke(t, ok) ==
    /\ pc[t] = "fanout"
    /\ NextCallback(t) # 0
    /\ call' = [call EXCEPT ![t].delivered =
                   Append(@, Invocation(call[t],
                                        inst[call[t].vm].callbacks[NextCallback(t)], ok))]
    /\ UNCHANGED <<sysprop, issued, fs, vms, debug_held_vms, persist, inst, held,
                   regLock, cbLock, pc, conn, nconn, ret>>

\* a handler that returns with the callbacks guard still held
NotifyFinishKeepCallbacks(t) ==
    /\ pc[t] = "fanout"
    /\ NextCallback(t) = 0
    /\ pc' = [pc EXCEPT ![t] = "done"]
    /\ call' = [call EXCEPT ![t] = Reply(call[t], "OK")]
    /\ regLock' = 0
    /\ UNCHANGED <<sysprop, issued, fs, vms, debug_held_vms, persist, inst, held,
                   cbLock, conn, nconn, ret>>

\* the loop is over: the callbacks guard, the Arc and the State guard are
\* dropped and the handler returns Ok(())
NotifyFinish(t) ==
    /\ pc[t] = "fanout"
    /\ NextCallback(t) = 0
    /\ pc' = [pc EXCEPT ![t] = "done"]
    /\ call' = [call EXCEPT ![t] = Reply(call[t], "OK")]
    /\ cbLock' = [cbLock EXCEPT ![call[t].vm] = 0]
    /\ regLock' = 0
    /\ UNCHANGED <<sysprop, issued, fs, vms, debug_held_vms, persist, inst, held,
                   conn, nconn, ret>>

\* the reply has gone back to the guest
NotifyReturn(t) ==
    /\ pc[t] = "done"
    /\ pc' = [pc EXCEPT ![t] = "idle"]
    /\ call' = [call EXCEPT ![t] = IdleCall]
    /\ UNCHANGED <<sysprop, issued, fs, vms, debug_held_vms, persist, inst, held,
                   regLock, cbLock, conn, nconn, ret>>

(***************************************************************************)
(* Inputs.                                                                 *)
(***************************************************************************)
\* root, an app holding MANAGE_VIRTUAL_MACHINE, the shell holding
\* DEBUG_VIRTUAL_MACHINE, and a caller holding neither
Root   == [uid |-> 0, manage |-> FALSE, debug |-> FALSE]
App    == [uid |-> 10001, manage |-> TRUE, debug |-> FALSE]
Shell  == [uid |-> 2000, manage |-> FALSE, debug |-> TRUE]
Nobody == [uid |-> 10002, manage |-> FALSE, debug |-> FALSE]

Callers == {Root, App, Shell, Nobody}

Listeners == {"L1", "L2"}

ExitCodes == {0, 1}

\* an image-only disk, a raw configuration, no log file
ImageDisk == [image |-> TRUE, partitions |-> 0, writable |-> FALSE]

SimpleConfig == [kind |-> "raw", log_fd |-> FALSE, disks |-> <<ImageDisk>>]

DiskShapes == [image : BOOLEAN, partitions : 0..MaxParts, writable : BOOLEAN]

DiskLists == UNION {[1..n -> DiskShapes] : n \in 0..MaxDisks}

Configs == [kind : {"raw", "app"}, log_fd : BOOLEAN, disks : DiskLists]

FailPoints ==
    [stage : {"none", "permission_service", "log_fd", "sid", "property_write",
              "create_dir", "load_app_config", "zero_filler_open",
              "zero_filler_set_len", "boot_files", "vm_instance_new"},
     disk : {0}]
    \cup [stage : {"composite", "clone"}, disk : 1..MaxDisks]

\* the CIDs a guest may name in a notification: those of the first VMs, and
\* one no VM has
UnknownCid == FIRST_GUEST_CID - 1

CidArgs(n) == {UnknownCid} \cup {FIRST_GUEST_CID + k : k \in 0..(n - 1)}

\* the peers of the stream listener: the guests of the VMs, and a stranger
PeerCids == {inst[i].cid : i \in Insts} \cup {U32FromNat(UnknownCid)}

\* values the property may hold when the service starts
InitialProps ==
    {NoProp, <<>>, <<"x">>, <<"-", "1">>, <<"+", "7">>, <<"0">>, <<"0", "9">>,
     <<"9", "9">>, <<"6", "5", "5", "3", "5">>,
     <<"4", "2", "9", "4", "9", "6", "7", "2", "9", "3">>,
     <<"4", "2", "9", "4", "9", "6", "7", "2", "9", "5">>,
     <<"4", "2", "9", "4", "9", "6", "7", "2", "9", "6">>}

(***************************************************************************)
(* Specifications.                                                         *)
(***************************************************************************)
InitWith(prop) ==
    /\ sysprop = prop
    /\ issued = <<>>
    /\ fs = {}
    /\ vms = <<>>
    /\ debug_held_vms = <<>>
    /\ persist = FALSE
    /\ inst = <<>>
    /\ held = <<>>
    /\ regLock = 0
    /\ cbLock = <<>>
    /\ pc = [t \in Threads |-> "idle"]
    /\ call = [t \in Threads |-> IdleCall]
    /\ conn = NoConn
    /\ nconn = 0
    /\ ret = [op |-> "none", status |-> "none"]

\* the service starts after boot: the property is not set
Init == InitWith(NoProp)

Create ==
    \E caller \in {App}, fail \in {NoFail} :
        Len(issued) < MaxVms /\ CreateVm(caller, SimpleConfig, fail)

Release == \E i \in Insts : ReleaseHandle(i)

RECURSIVE SumLen(_)
SumLen(i) == IF i = 0 THEN 0 ELSE Len(inst[i].callbacks) + SumLen(i - 1)

\* listeners registered so far, on all instances
Registered == SumLen(Len(inst))

Register ==
    \E i \in Insts, l \in Listeners :
        Registered < MaxCallbacks /\ RegisterCallback(i, l)

Accept ==
    /\ nconn < MaxConns
    /\ (BridgeAcceptInvalid \/ \E cid \in PeerCids : BridgeAccept(cid))

NotifyArgs(n) ==
    {a \in [op : NotifyOps, cid : CidArgs(n), code : ExitCodes] :
        a.op # "notifyPayloadFinished" => a.code = 0}

Handle(t) ==
    \/ NotifyUpdate(t)
    \/ NotifyTake(t)
    \/ NotifyLockCallbacks(t)
    \/ \E ok \in BOOLEAN : NotifyInvoke(t, ok)
    \/ NotifyFinish(t)
    \/ NotifyReturn(t)

\* one notification at a time, served by the first binder thread
Notify ==
    \E t \in {1} :
        \/ \E a \in NotifyArgs(MaxVms) : NotifyArrive(t, a.op, a.cid, a.code)
        \/ Handle(t)

\* Payload notifications, the callback fan-out and the stream slot.
Next ==
    \/ Create
    \/ Register
    \/ Accept
    \/ BridgeAttach
    \/ Notify

Spec == Init /\ [][Next]_vars

\* CID allocation: the property holds any value when the service starts, and
\* createVm calls succeed or fail after the CID was taken.
InitCid == \E prop \in InitialProps : InitWith(prop)

CreateCid ==
    \E caller \in {App, Nobody},
       fail \in {NoFail, [stage |-> "property_write", disk |-> 0],
                 [stage |-> "create_dir", disk |-> 0],
                 [stage |-> "vm_instance_new", disk |-> 0]} :
        Len(issued) < MaxAllocs /\ CreateVm(caller, SimpleConfig, fail)

NextCid == CreateCid \/ Release

SpecCid == InitCid /\ [][NextCid]_vars

\* The registry: instances are created and released, listed and debug-held.
CreateReg ==
    \E caller \in {Root, App, Shell} :
        Len(issued) < MaxRegVms /\ CreateVm(caller, SimpleConfig, NoFail)

ListReg == \E caller \in {Root, Shell, App} : DebugListVms(caller)

HoldReg ==
    \E caller \in {Root, Shell, App}, i \in Insts :
        Len(debug_held_vms) < MaxHeld /\ DebugHoldVmRef(caller, i)

\* client-side handles of the instances: a handle debugDropVmRef gives back
\* is released before the next one is asked for
DropReg ==
    \E caller \in {Root, Shell, App}, cid \in CidArgs(MaxRegVms) :
        (\A i \in Insts : held[i] <= 1) /\ DebugDropVmRef(caller, cid)

\* initializeWritablePartition calls: a negative size, an image QcowFile::new
\* cannot use, and the partition types
PartitionCalls ==
    {[size |-> -1, type |-> "RAW", created |-> TRUE],
     [size |-> 4096, type |-> "RAW", created |-> FALSE],
     [size |-> 4096, type |-> "RAW", created |-> TRUE],
     [size |-> 4096, type |-> "ANDROID_VM_INSTANCE", created |-> TRUE],
     [size |-> 4096, type |-> "UNKNOWN", created |-> TRUE]}

InitPartitionReg ==
    \E caller \in {Root, App, Shell}, a \in PartitionCalls :
        InitializeWritablePartition(caller, a.size, a.type, a.created)

NextReg == CreateReg \/ Release \/ ListReg \/ HoldReg \/ DropReg \/ InitPartitionReg

SpecReg == Init /\ [][NextReg]_vars

\* Disk assembly: the first createVm call the service gets, with every shape
\* of configuration and every point of failure; the VM made is started and
\* released.
CreateDisk ==
    /\ ret.op = "none"
    /\ \E config \in Configs, fail \in FailPoints : CreateVm(App, config, fail)

StartDisk == \E i \in Insts, launched \in BOOLEAN : Start(i, launched)

NextDisk == CreateDisk \/ StartDisk \/ Release

SpecDisk == Init /\ [][NextDisk]_vars

\* The stream listener: guests and strangers connect while instances are
\* created and released.
CreateBridge == Len(issued) < MaxBridgeVms /\ CreateVm(App, SimpleConfig, NoFail)

AcceptBridge ==
    /\ nconn < MaxBridgeConns
    /\ (BridgeAcceptInvalid \/ \E cid \in PeerCids : BridgeAccept(cid))

NextBridge == CreateBridge \/ Release \/ AcceptBridge \/ BridgeAttach

SpecBridge == Init /\ [][NextBridge]_vars

\* Concurrent notifications for one VM: every binder thread serves calls, and
\* a call that finds the State mutex taken waits for it.
CreateRace == inst = <<>> /\ CreateVm(App, SimpleConfig, NoFail)

NotifyRace ==
    \E t \in Threads :
        \/ \E a \in NotifyArgs(1) :
              a.cid # UnknownCid /\ a.code = 0
              /\ (NotifyCall(t, a.op, a.cid, a.code) \/ NotifyArrive(t, a.op, a.cid, a.code))
        \/ NotifyEnter(t)
        \/ Handle(t)

RegisterRace ==
    \E i \in Insts :
        Len(inst[i].callbacks) < 1 /\ RegisterCallback(i, "L1")

NextRace == CreateRace \/ Release \/ RegisterRace \/ NotifyRace

SpecRace == Init /\ [][NextRace]_vars

\* Registry lookups while instances are released: notifications, the stream
\* listener and the listing look instances up, with released instances still
\* in the stored list until the next createVm prunes them.
CreateLookup == Len(issued) < MaxVms /\ CreateVm(App, SimpleConfig, NoFail)

RegisterLookup ==
    \E i \in Insts :
        Len(inst[i].callbacks) < 1 /\ RegisterCallback(i, "L1")

ListLookup == DebugListVms(Shell)

AcceptLookup ==
    /\ nconn < MaxConns
    /\ (BridgeAcceptInvalid \/ \E cid \in PeerCids : BridgeAccept(cid))

NotifyLookup ==
    \E t \in {1} :
        \/ \E cid \in CidArgs(MaxVms) :
              NotifyArrive(t, "notifyPayloadStarted", cid, 0)
        \/ Handle(t)

NextLookup ==
    \/ CreateLookup
    \/ Release
    \/ RegisterLookup
    \/ ListLookup
    \/ AcceptLookup
    \/ BridgeAttach
    \/ NotifyLookup

SpecLookup == Init /\ [][NextLookup]_vars

\* The life of an instance: it is started, its child exits, it is connected
\* to, listened to, notified, read, listed and released.
CreateLife == Len(issued) < MaxVms /\ CreateVm(App, SimpleConfig, NoFail)

StartLife == \E i \in Insts, launched \in BOOLEAN : Start(i, launched)

ExitLife == \E i \in Insts : ChildExit(i)

ConnectLife == \E i \in Insts, connected \in BOOLEAN : ConnectVsock(i, connected)

RegisterLife ==
    \E i \in Insts :
        Len(inst[i].callbacks) < 1 /\ RegisterCallback(i, "L1")

NotifyLife ==
    \E t \in {1} :
        \/ \E a \in NotifyArgs(MaxVms) :
              a.cid # UnknownCid /\ a.code = 0 /\ NotifyArrive(t, a.op, a.cid, a.code)
        \/ Handle(t)

GetStateLife == \E i \in Insts : GetStateCall(i)

ListLife == DebugListVms(Shell)

NextLife ==
    \/ CreateLife
    \/ StartLife
    \/ ExitLife
    \/ ConnectLife
    \/ RegisterLife
    \/ NotifyLife
    \/ GetStateLife
    \/ ListLife
    \/ Release

SpecLife == Init /\ [][NextLife]_vars

\* Owning handles: the client handle and the debug-held handle of started
\* and exited instances are taken and released.
CreateKill == Len(issued) < MaxBridgeVms /\ CreateVm(App, SimpleConfig, NoFail)

HoldKill ==
    \E i \in Insts : Len(debug_held_vms) < MaxHeld /\ DebugHoldVmRef(Shell, i)

DropKill ==
    \E cid \in CidArgs(MaxBridgeVms) :
        (\A i \in Insts : held[i] <= 1) /\ DebugDropVmRef(Shell, cid)

NextKill == CreateKill \/ StartLife \/ ExitLife \/ HoldKill \/ DropKill \/ Release

SpecKill == Init /\ [][NextKill]_vars

\* Two instances side by side: their guests notify on every binder thread
\* and connect to the stream listener.
CreateShare == Len(issued) < MaxBridgeVms /\ CreateVm(App, SimpleConfig, NoFail)

RegisterShare ==
    \E i \in Insts :
        Len(inst[i].callbacks) < 1 /\ RegisterCallback(i, "L1")

AcceptShare ==
    /\ nconn < MaxConns
    /\ \E i \in Insts : BridgeAccept(inst[i].cid)

NotifyShare ==
    \E t \in Threads :
        \/ \E i \in Insts :
              \/ NotifyCall(t, "notifyPayloadStarted", U32AsI32(inst[i].cid), 0)
              \/ NotifyArrive(t, "notifyPayloadStarted", U32AsI32(inst[i].cid), 0)
        \/ NotifyEnter(t)
        \/ Handle(t)

NextShare == CreateShare \/ RegisterShare \/ AcceptShare \/ BridgeAttach \/ NotifyShare

SpecShare == Init /\ [][NextShare]_vars

\* Lock order: every operation that takes the State mutex or the callbacks
\* mutex of the instance runs beside notifications served by every binder
\* thread.
NextOrder ==
    \/ CreateRace
    \/ Release
    \/ RegisterRace
    \/ ListLookup
    \/ HoldKill
    \/ DropKill
    \/ AcceptShare
    \/ BridgeAttach
    \/ NotifyShare

SpecOrder == Init /\ [][NextOrder]_vars

\* The callbacks of one instance: listeners are registered in every state of
\* the instance while it is started, notified, exits and is released.
NextCallbacks ==
    \/ CreateRace
    \/ StartLife
    \/ ExitLife
    \/ Register
    \/ NotifyLife
    \/ Release

SpecCallbacks == Init /\ [][NextCallbacks]_vars

(***************************************************************************)
(* microdroid_manager: the DICE configuration descriptor (dice.rs).        *)
(* Text is a sequence of bytes; a CBOR value is a record with its kind t   *)
(* and its content v.                                                      *)
(***************************************************************************)
MaxSubcomponents == 2

CborInt(n) == [t |-> "int", v |-> n]

CborText(s) == [t |-> "text", v |-> s]

CborArray(items) == [t |-> "array", v |-> items]

CborMap(entries) == [t |-> "map", v |-> entries]

\* a &[u8] or Box<[u8]> given to cbor!() is serialised as a sequence of
\* integers
CborBytes(b) == CborArray([k \in 1..Len(b) |-> CborInt(b[k])])

RECURSIVE ConcatSeqs(_)
ConcatSeqs(ss) == IF ss = <<>> THEN <<>> ELSE Head(ss) \o ConcatSeqs(Tail(ss))

\* the header of a CBOR item: major type and argument, in the shortest form
CborHead(major, n) ==
    IF n < 24 THEN <<major * 32 + n>>
    ELSE IF n < 256 THEN <<major * 32 + 24, n>>
    ELSE IF n < 65536 THEN <<major * 32 + 25, n \div 256, n % 256>>
    ELSE <<major * 32 + 26, n \div 16777216, (n \div 65536) % 256,
           (n \div 256) % 256, n % 256>>

\* Value::to_vec(): maps and arrays are written in the order of their Vec
RECURSIVE ToVec(_)
ToVec(value) ==
    IF value.t = "int"
        THEN IF value.v >= 0 THEN CborHead(0, value.v) ELSE CborHead(1, -1 - value.v)
    ELSE IF value.t = "text" THEN CborHead(3, Len(value.v)) \o value.v
    ELSE IF value.t = "array"
        THEN CborHead(4, Len(value.v))
                 \o ConcatSeqs([k \in 1..Len(value.v) |-> ToVec(value.v[k])])
    ELSE CborHead(5, Len(value.v))
             \o ConcatSeqs([k \in 1..Len(value.v) |->
                               ToVec(value.v[k][1]) \o ToVec(value.v[k][2])])

\* Subcomponent::to_value
SubcomponentToValue(s) ==
    CborMap(<< <<CborInt(1), CborText(s.name)>>,
               <<CborInt(2), CborInt(s.version)>>,
               <<CborInt(3), CborBytes(s.code_hash)>>,
               <<CborInt(4), CborBytes(s.authority_hash)>> >>)

\* "Microdroid payload"
MicrodroidPayload ==
    <<77, 105, 99, 114, 111, 100, 114, 111, 105, 100, 32, 112, 97, 121, 108, 111,
      97, 100>>

\* a descriptor that has the subcomponent entry whatever the list is
FormatPayloadConfigDescriptorAlways(payload, subcomponents) ==
    LET name == <<CborInt(-70002), CborText(MicrodroidPayload)>>
        conf == IF payload.kind = "ConfigPath"
                THEN <<CborInt(-71000), CborText(payload.text)>>
                ELSE <<CborInt(-71001),
                       CborMap(<< <<CborInt(1), CborText(payload.text)>> >>)>>
        values == [k \in 1..Len(subcomponents) |->
                      SubcomponentToValue(subcomponents[k])]
    IN  IF payload.kind \notin {"ConfigPath", "Config"}
        THEN [status |-> "Err", bytes |-> <<>>]
        ELSE [status |-> "Ok",
              bytes |-> ToVec(CborMap(<<name, conf,
                                        <<CborInt(-71002), CborArray(values)>> >>))]

\* format_payload_config_descriptor(payload, subcomponents)
FormatPayloadConfigDescriptor(payload, subcomponents) ==
    LET name == <<CborInt(-70002), CborText(MicrodroidPayload)>>
        conf == IF payload.kind = "ConfigPath"
                THEN <<CborInt(-71000), CborText(payload.text)>>
                ELSE <<CborInt(-71001),
                       CborMap(<< <<CborInt(1), CborText(payload.text)>> >>)>>
        values == [k \in 1..Len(subcomponents) |->
                      SubcomponentToValue(subcomponents[k])]
        map == IF subcomponents # <<>>
               THEN <<name, conf, <<CborInt(-71002), CborArray(values)>> >>
               ELSE <<name, conf>>
    IN  IF payload.kind \notin {"ConfigPath", "Config"}
        THEN [status |-> "Err", bytes |-> <<>>]
        ELSE [status |-> "Ok", bytes |-> ToVec(CborMap(map))]

\* "/config_path" and "payload_binary"; the subcomponents "apk1" and "apk2" of
\* the tests, the second with a version that takes two bytes
ConfigPathText == <<47, 99, 111, 110, 102, 105, 103, 95, 112, 97, 116, 104>>

PayloadBinaryText == <<112, 97, 121, 108, 111, 97, 100, 95, 98, 105, 110, 97, 114, 121>>

Apk1 == [name |-> <<97, 112, 107, 49>>, version |-> 1, code_hash |-> <<42>>,
         authority_hash |-> <<17>>]

Apk2 == [name |-> <<97, 112, 107, 50>>, version |-> 4097, code_hash |-> <<43>>,
         authority_hash |-> <<19>>]

\* the payloads of the tests, payloads with an empty text, and a payload that
\* is neither a config path nor a config
Payloads ==
    {[kind |-> "ConfigPath", text |-> ConfigPathText],
     [kind |-> "ConfigPath", text |-> <<>>],
     [kind |-> "Config", text |-> PayloadBinaryText],
     [kind |-> "Config", text |-> <<>>],
     [kind |-> "Other", text |-> <<>>]}

\* the subcomponents of the tests, and two with empty and longer fields
Subcomponents ==
    {Apk1, Apk2,
     [name |-> <<>>, version |-> 24, code_hash |-> <<>>, authority_hash |-> <<255>>],
     [name |-> <<97>>, version |-> 70000, code_hash |-> <<1, 2>>,
      authority_hash |-> <<>>]}

SubcomponentLists == UNION {[1..n -> Subcomponents] : n \in 0..MaxSubcomponents}

\* one call of format_payload_config_descriptor
FormatConfigDescriptor(payload, subcomponents) ==
    /\ \E out \in {FormatPayloadConfigDescriptor(payload, subcomponents)} :
          ret' = [op |-> "format_payload_config_descriptor", status |-> out.status,
                  payload |-> payload, subcomponents |-> subcomponents,
                  bytes |-> out.bytes]
    /\ UNCHANGED <<sysprop, issued, fs, vms, debug_held_vms, persist, inst, held,
                   regLock, cbLock, pc, call, conn, nconn>>

NextDice ==
    \E payload \in Payloads, subcomponents \in SubcomponentLists :
        FormatConfigDescriptor(payload, subcomponents)

SpecDice == Init /\ [][NextDice]_vars

(***************************************************************************)
(* composd: InstanceStarter::start_new_instance (instance_starter.rs).     *)
(* ret holds the call in progress: the stage it is at, the files of the    *)
(* instance directory, the VM, the effects it had so far (log), and its    *)
(* result.                                                                 *)
(***************************************************************************)
IdsigFiles == {"idsig", "idsig_manifest_apk", "idsig_manifest_ext_apk"}

\* the instance image: no file, the file of an earlier instance, and the file
\* with the bytes written to it since it was truncated
NoImage == [present |-> FALSE, content |-> <<>>]

StaleImage == [present |-> TRUE, content |-> <<"stale">>]

ImageWith(content) == [present |-> TRUE, content |-> content]

\* a start that goes from the instance image straight to the VM
StageAfterSkipsRemoval(stage, llpvm) ==
    CASE stage = "create_dir_all" -> "create_instance_image"
      [] stage = "create_instance_image" ->
             IF llpvm THEN "allocate_instance_id" ELSE "start_vm"
      [] stage = "allocate_instance_id" -> "start_vm"
      [] stage = "remove_idsig" -> "start_vm"
      [] stage = "start_vm" -> "attestation_chain"
      [] stage = "attestation_chain" -> "done"

\* the statement that follows a statement of start_new_instance that went
\* well; llpvm is cfg!(llpvm_changes)
StageAfter(stage, llpvm) ==
    CASE stage = "create_dir_all" -> "create_instance_image"
      [] stage = "create_instance_image" ->
             IF llpvm THEN "allocate_instance_id" ELSE "remove_idsig"
      [] stage = "allocate_instance_id" -> "remove_idsig"
      [] stage = "remove_idsig" -> "start_vm"
      [] stage = "start_vm" -> "attestation_chain"
      [] stage = "attestation_chain" -> "done"

AtStage(stage) == ret.op = "start_new_instance" /\ ret.stage = stage

\* the call goes on with the next statement, having had these effects
Proceed(r, effects) ==
    [r EXCEPT !.stage = StageAfter(ret.stage, ret.llpvm), !.log = @ \o effects,
              !.status = IF StageAfter(ret.stage, ret.llpvm) = "done" THEN "OK" ELSE @]

\* a `?` returns the error; the effects the statement had before stay
Bail(r, effects) ==
    [r EXCEPT !.stage = "done", !.status = "Err", !.log = @ \o effects,
              !.vm = IF @ = "none" THEN "none" ELSE "dropped"]

\* fs::create_dir_all(&self.instance_root)?
CreateDirAll(ok) ==
    /\ AtStage("create_dir_all")
    /\ ret' = IF ok THEN Proceed(ret, <<"create_dir_all">>) ELSE Bail(ret, <<>>)
    /\ UNCHANGED <<sysprop, issued, fs, vms, debug_held_vms, persist, inst, held,
                   regLock, cbLock, pc, call, conn, nconn>>

\* self.create_instance_image(virtualization_service)?: the file is opened
\* with create and truncate, and initializeWritablePartition is called on it
\* for an ANDROID_VM_INSTANCE partition
CreateInstanceImage(fail) ==
    /\ AtStage("create_instance_image")
    /\ ret' = IF fail = "open" THEN Bail(ret, <<>>)
              ELSE IF fail = "initializeWritablePartition"
                  THEN Bail([ret EXCEPT !.image = ImageWith(<<>>)], <<"truncate_image">>)
              ELSE Proceed([ret EXCEPT !.image = ImageWith(FormatAsAndroidVmInstance)],
                           <<"truncate_image", "initializeWritablePartition">>)
    /\ UNCHANGED <<sysprop, issued, fs, vms, debug_held_vms, persist, inst, held,
                   regLock, cbLock, pc, call, conn, nconn>>

\* self.allocate_instance_id(virtualization_service)?
AllocateInstanceId(fail) ==
    /\ AtStage("allocate_instance_id")
    /\ ret' = IF fail = "allocateInstanceId" THEN Bail(ret, <<>>)
              ELSE IF fail = "write" THEN Bail(ret, <<"allocateInstanceId">>)
              ELSE Proceed([ret EXCEPT !.id_file = "new"],
                           <<"allocateInstanceId", "write_instance_id">>)
    /\ UNCHANGED <<sysprop, issued, fs, vms, debug_held_vms, persist, inst, held,
                   regLock, cbLock, pc, call, conn, nconn>>

\* the three fs::remove_file calls, their results ignored: a file that is
\* not there gives an error, and so does a file that cannot be removed
RemoveIdsigFiles(kept) ==
    /\ AtStage("remove_idsig")
    /\ kept \subseteq ret.idsig
    /\ ret' = Proceed([ret EXCEPT !.idsig = kept],
                      <<"remove_idsig", "remove_idsig_manifest_apk",
                        "remove_idsig_manifest_ext_apk">>)
    /\ UNCHANGED <<sysprop, issued, fs, vms, debug_held_vms, persist, inst, held,
                   regLock, cbLock, pc, call, conn, nconn>>

\* self.start_vm(virtualization_service)?
StartVm(fail) ==
    /\ AtStage("start_vm")
    /\ ret' = IF fail \in {"read_instance_id", "open_image", "ComposClient::start"}
                  \/ (ret.llpvm /\ ret.id_file = "none")
                  \/ ~ret.image.present
                  THEN Bail(ret, <<>>)
              ELSE IF fail = "connect_service"
                  THEN Bail([ret EXCEPT !.vm = "started"], <<"ComposClient::start">>)
              ELSE Proceed([ret EXCEPT !.vm = "started"],
                           <<"ComposClient::start", "connect_service">>)
    /\ UNCHANGED <<sysprop, issued, fs, vms, debug_held_vms, persist, inst, held,
                   regLock, cbLock, pc, call, conn, nconn>>

\* instance.service.getAttestationChain()? and fs::write(.../bcc, bcc)?
SaveAttestationChain(fail) ==
    /\ AtStage("attestation_chain")
    /\ ret' = IF fail = "getAttestationChain" THEN Bail(ret, <<>>)
              ELSE IF fail = "write" THEN Bail(ret, <<"getAttestationChain">>)
              ELSE Proceed([ret EXCEPT !.bcc = "new"],
                           <<"getAttestationChain", "write_bcc">>)
    /\ UNCHANGED <<sysprop, issued, fs, vms, debug_held_vms, persist, inst, held,
                   regLock, cbLock, pc, call, conn, nconn>>

\* start_new_instance is called with any instance directory left by an
\* earlier instance
InitCompos ==
    /\ sysprop = NoProp /\ issued = <<>> /\ fs = {} /\ vms = <<>>
    /\ debug_held_vms = <<>> /\ persist = FALSE /\ inst = <<>> /\ held = <<>>
    /\ regLock = 0 /\ cbLock = <<>>
    /\ pc = [t \in Threads |-> "idle"] /\ call = [t \in Threads |-> IdleCall]
    /\ conn = NoConn /\ nconn = 0
    /\ \E llpvm \in BOOLEAN, image \in {NoImage, StaleImage}, idsig \in SUBSET IdsigFiles,
          id_file \in {"none", "stale"}, bcc \in {"none", "stale"} :
          ret = [op |-> "start_new_instance", status |-> "none",
                 stage |-> "create_dir_all", llpvm |-> llpvm, image |-> image,
                 idsig |-> idsig, id_file |-> id_file, bcc |-> bcc, vm |-> "none",
                 log |-> <<>>]

NextCompos ==
    \/ \E ok \in BOOLEAN : CreateDirAll(ok)
    \/ \E fail \in {"none", "open", "initializeWritablePartition"} :
          CreateInstanceImage(fail)
    \/ \E fail \in {"none", "allocateInstanceId", "write"} : AllocateInstanceId(fail)
    \/ \E kept \in SUBSET IdsigFiles : RemoveIdsigFiles(kept)
    \/ \E fail \in {"none", "read_instance_id", "open_image", "ComposClient::start",
                    "connect_service"} : StartVm(fail)
    \/ \E fail \in {"none", "getAttestationChain", "write"} : SaveAttestationChain(fail)

SpecCompos == InitCompos /\ [][NextCompos]_vars

(***************************************************************************)
(* Properties.                                                             *)
(***************************************************************************)
\* the instances that still have an owning handle
Owned == {i \in Insts : BinderRefs(i) > 0}

\* the rank of the state the call of thread t asks for, and of the state the
\* instance it found is in
TargetRank(t) == PayloadRank(Target(call[t].op))

CurrentRank(t) == PayloadRank(inst[call[t].vm].payload_state)

\* thread t makes a step out of stage st
Leaves(t, st) == pc[t] = st /\ pc'[t] # st

\* C1: the CIDs next_cid has returned are strictly increasing in the order
\* they were returned, and once a CID was returned the persisted property is
\* the decimal form of the last one and reads back as it.
CidMonotonic ==
    /\ \A j \in 1..Len(issued), k \in 1..Len(issued) :
          j < k => U32Less(issued[j], issued[k])
    /\ issued # <<>> =>
          /\ sysprop = FormatU32(issued[Len(issued)])
          /\ ParseU32(sysprop) = issued[Len(issued)]

CidMonotonicWitness ==
    /\ Len(issued) >= 3
    /\ ret.op = "createVm" /\ ret.status = "OK" /\ ret.cid = issued[Len(issued)]

\* C2: a notification whose target lies more than one state above the payload
\* state of the instance (Ready or Finished in Starting, Finished in Started)
\* returns ILLEGAL_STATE, and the payload state stays what it was.
SkippedStateRejected ==
    [][\A t \in Threads :
          (pc[t] = "update" /\ TargetRank(t) > CurrentRank(t) + 1) =>
              /\ inst'[call[t].vm].payload_state = inst[call[t].vm].payload_state
              /\ Leaves(t, "update") =>
                    pc'[t] = "done" /\ call'[t].status = "ILLEGAL_STATE"]_vars

SkippedStateRejectedWitness ==
    \E t \in Threads :
        /\ pc[t] = "done" /\ call[t].status = "ILLEGAL_STATE"
        /\ call[t].op = "notifyPayloadFinished" /\ call[t].seen = "Started"
        /\ SeenState(call[t].cid) = "Started"

\* C3: a notification whose target is the payload state of the instance or a
\* lower one returns ILLEGAL_STATE without calling a listener, and the payload
\* state, the stream slot and the callbacks of every instance stay as they
\* were.
RepeatedNotificationRejected ==
    [][\A t \in Threads :
          (Leaves(t, "update") /\ TargetRank(t) <= CurrentRank(t)) =>
              /\ pc'[t] = "done" /\ call'[t].status = "ILLEGAL_STATE"
              /\ call[t].delivered = <<>> /\ call'[t].delivered = <<>>
              /\ inst' = inst]_vars

RepeatedNotificationRejectedWitness ==
    \E t \in Threads :
        /\ pc[t] = "done" /\ call[t].status = "ILLEGAL_STATE"
        /\ call[t].op = "notifyPayloadReady" /\ call[t].seen = "Finished"
        /\ \E i \in Insts :
              /\ inst[i].cid = I32AsU32(call[t].cid)
              /\ inst[i].payload_state = "Finished"
              /\ inst[i].callbacks # <<>>

\* C4: under every interleaving of the binder threads the payload state of an
\* instance never goes down; a call gets past update_payload_state exactly
\* when its target is the state right above the current one, which then
\* becomes the payload state, and returns ILLEGAL_STATE otherwise; and of the
\* notifyPayloadStarted calls answered for one CID at most one returned OK.
PayloadTotallyOrdered ==
    /\ [][\A i \in Insts :
             PayloadRank(inst'[i].payload_state) >= PayloadRank(inst[i].payload_state)]_vars
    /\ [][\A t \in Threads :
             Leaves(t, "update") =>
                IF TargetRank(t) = CurrentRank(t) + 1
                THEN /\ pc'[t] \in {"take", "lock_callbacks"}
                     /\ inst'[call[t].vm].payload_state = Target(call[t].op)
                ELSE pc'[t] = "done" /\ call'[t].status = "ILLEGAL_STATE"]_vars
    /\ [](\A t \in Threads, u \in Threads :
             (/\ t # u
              /\ pc[t] = "done" /\ pc[u] = "done"
              /\ call[t].op = call[u].op /\ call[t].cid = call[u].cid
              /\ call[t].status = "OK")
             => call[u].status # "OK")

\* two notifyPayloadStarted calls for one CID, both made while the instance
\* was Starting: one returned OK, the other ILLEGAL_STATE
PayloadTotallyOrderedWitness ==
    \E t \in Threads, u \in Threads :
        /\ t # u /\ pc[t] = "done" /\ pc[u] = "done"
        /\ call[t].op = "notifyPayloadStarted" /\ call[u].op = "notifyPayloadStarted"
        /\ call[t].cid = call[u].cid
        /\ call[t].seen = "Starting" /\ call[u].seen = "Starting"
        /\ call[t].status = "OK" /\ call[u].status = "ILLEGAL_STATE"

\* C5: a notifyPayloadStarted call that gets past update_payload_state moves
\* what is in the stream slot into the call and leaves the slot empty; the
\* slot stays empty to the end of the call, and when the call returns every
\* registered listener got onPayloadStarted with that stream and the CID, and
\* the payload state is Started.
StartedHandsOverStream ==
    [][\A t \in Threads :
          call[t].op = "notifyPayloadStarted" =>
              /\ Leaves(t, "take") =>
                    /\ call'[t].stream = inst[call[t].vm].stream
                    /\ inst'[call[t].vm].stream = 0
              /\ pc[t] \in {"lock_callbacks", "fanout"} =>
                    /\ inst[call[t].vm].stream = 0
                    /\ inst'[call[t].vm].stream = 0
                    /\ pc'[t] # "done" => call'[t].stream = call[t].stream
              /\ (Leaves(t, "fanout") /\ call[t].stream # 0) =>
                    /\ pc'[t] = "done" /\ call'[t].status = "OK"
                    /\ Len(call[t].delivered) = Len(inst[call[t].vm].callbacks)
                    /\ \A k \in 1..Len(call[t].delivered) :
                          /\ call[t].delivered[k].event = "onPayloadStarted"
                          /\ call[t].delivered[k].stream = call[t].stream
                          /\ call[t].delivered[k].cid = call[t].cid
                    /\ inst'[call[t].vm].payload_state = "Started"]_vars

StartedHandsOverStreamWitness ==
    \E t \in Threads :
        /\ pc[t] = "fanout" /\ call[t].op = "notifyPayloadStarted"
        /\ call[t].stream # 0 /\ call[t].stream = conn.stream
        /\ conn.state = "attached" /\ conn.vm = call[t].vm
        /\ NextCallback(t) = 0 /\ Len(call[t].delivered) >= 1
        /\ inst[call[t].vm].stream = 0

\* C6: when a notification returns after the fan-out, the listeners called
\* are the registered listeners of the instance, in the order of their
\* registration, each called once with the event of the notification; and
\* each turn of the loop calls the listener right after the ones called so
\* far.
FanOutInRegistrationOrder ==
    [][\A t \in Threads :
          /\ (pc[t] = "fanout" /\ pc'[t] = "fanout"
                 /\ call'[t].delivered # call[t].delivered) =>
                LET n == Len(call[t].delivered)
                IN  /\ Len(call'[t].delivered) = n + 1
                    /\ n < Len(inst[call[t].vm].callbacks)
                    /\ call'[t].delivered[n + 1].listener = inst[call[t].vm].callbacks[n + 1]
                    /\ \A k \in 1..n : call'[t].delivered[k] = call[t].delivered[k]
          /\ Leaves(t, "fanout") =>
                /\ Len(call[t].delivered) = Len(inst[call[t].vm].callbacks)
                /\ \A k \in 1..Len(call[t].delivered) :
                      /\ call[t].delivered[k].listener = inst[call[t].vm].callbacks[k]
                      /\ call[t].delivered[k].event = Event(call[t].op)]_vars

FanOutInRegistrationOrderWitness ==
    \E t \in Threads :
        /\ pc[t] = "fanout" /\ call[t].op = "notifyPayloadReady"
        /\ NextCallback(t) = 0
        /\ Len(call[t].delivered) = 2
        /\ call[t].delivered[1].listener # call[t].delivered[2].listener
        /\ \A k \in 1..2 : call[t].delivered[k].ok

\* C7: a fan-out in which a listener failed still calls every listener
\* registered after it, and the notification returns OK with the payload
\* state at its target.
ListenerFailureTolerated ==
    [][\A t \in Threads :
          (/\ Leaves(t, "fanout")
           /\ \E k \in 1..Len(call[t].delivered) : ~call[t].delivered[k].ok) =>
              /\ Len(call[t].delivered) = Len(inst[call[t].vm].callbacks)
              /\ pc'[t] = "done" /\ call'[t].status = "OK"
              /\ inst'[call[t].vm].payload_state = Target(call[t].op)]_vars

ListenerFailureToleratedWitness ==
    \E t \in Threads :
        /\ pc[t] = "fanout" /\ NextCallback(t) = 0
        /\ Len(call[t].delivered) = 2
        /\ ~call[t].delivered[1].ok /\ call[t].delivered[2].ok

\* C8: a debugListVms call a permitted caller makes returns one entry for
\* each instance that still has an owning handle and none for the others:
\* with N instances created and M of them released, N - M entries.
ListingCountsOwned ==
    [][(ret' # ret /\ ret'.op = "debugListVms" /\ ret'.status = "OK") =>
          /\ Len(ret'.list) = Len(inst) - Cardinality(Insts \ Owned)
          /\ \A i \in Owned :
                Cardinality({k \in 1..Len(ret'.list) :
                                ret'.list[k].cid = U32AsI32(inst[i].cid)}) = 1
          /\ \A i \in Insts \ Owned :
                \A k \in 1..Len(ret'.list) : ret'.list[k].cid # U32AsI32(inst[i].cid)]_vars

\* a listing of two entries made with three instances created, while the
\* stored list still has the entry of the released one
ListingCountsOwnedWitness ==
    /\ ret.op = "debugListVms" /\ ret.status = "OK"
    /\ Len(inst) = 3 /\ Cardinality(Owned) = 2 /\ Len(ret.list) = 2
    /\ Len(vms) = 3
    /\ \A i \in Owned : \E k \in 1..2 : ret.list[k].cid = U32AsI32(inst[i].cid)

\* C9: a createVm call that rejects a configuration with a disk declaring an
\* image and partitions (ILLEGAL_ARGUMENT) has created no file and no
\* directory.
BothRejectedWithoutSideEffects ==
    (ret.op = "createVm" /\ ret.both /\ ret.status = "ILLEGAL_ARGUMENT") =>
        ret.created = {}

\* C10: the step that handles an accepted connection stores its stream in the
\* slot of the instance that has the peer CID and an owning handle, whatever
\* the slot held, and changes no other slot; without such an instance the
\* connection is dropped and no slot changes.
BridgeInstallsOrDrops ==
    [][(conn.state = "accepted" /\ conn'.state # "accepted") =>
          LET live == {i \in Owned : inst[i].cid = conn.cid}
          IN  IF live # {}
              THEN /\ conn'.state = "attached"
                   /\ \A i \in live : inst'[i].stream = conn.stream
                   /\ \A i \in Insts \ live : inst'[i].stream = inst[i].stream
              ELSE /\ conn'.state = "dropped"
                   /\ \A i \in Insts : inst'[i].stream = inst[i].stream]_vars

\* a connection took the place of a stream that was in the slot
BridgeInstallsOrDropsWitness ==
    /\ conn.state = "attached" /\ conn.prev # 0
    /\ inst[conn.vm].stream = conn.stream

\* C11: the accept loop never returns; after a connection that was invalid or
\* came from a CID no instance has, the loop is back at accepting, a stream
\* from the CID of any instance with an owning handle can be accepted, and
\* once accepted it is stored in the slot of that instance.
BridgeKeepsServing ==
    /\ [](conn.state # "stopped")
    /\ [](conn.state \in {"invalid", "dropped"} =>
             \A i \in Owned : ENABLED BridgeAccept(inst[i].cid))
    /\ [][(/\ conn.state = "accepted" /\ conn'.state # "accepted"
            /\ \E i \in Owned : inst[i].cid = conn.cid) =>
             /\ conn'.state = "attached"
             /\ inst'[conn'.vm].cid = conn.cid
             /\ inst'[conn'.vm].stream = conn.stream]_vars

\* a connection is attached after earlier ones that were all invalid or came
\* from a stranger: no slot holds an earlier stream
BridgeKeepsServingWitness ==
    /\ conn.state = "attached" /\ conn.stream >= 2 /\ conn.prev = 0
    /\ \A i \in Insts : inst[i].stream \in {0, conn.stream}

\* C12: a notification whose cid is the CID of no instance with an owning
\* handle returns SERVICE_SPECIFIC (cannot find a VM); no instance changes
\* and no listener is called.
UnknownCidRejected ==
    [][\A t \in Threads :
          (/\ pc[t] \in {"idle", "wait"} /\ pc'[t] \notin {"idle", "wait"}
           /\ \A i \in Owned : U32AsI32(inst[i].cid) # call'[t].cid) =>
              /\ pc'[t] = "done" /\ call'[t].status = "SERVICE_SPECIFIC"
              /\ call'[t].delivered = <<>>
              /\ inst' = inst]_vars

\* the call was rejected while an instance with a listener and an attached
\* stream was there
UnknownCidRejectedWitness ==
    \E t \in Threads :
        /\ pc[t] = "done" /\ call[t].status = "SERVICE_SPECIFIC"
        /\ call[t].op = "notifyPayloadStarted" /\ call[t].cid = UnknownCid
        /\ \E i \in Owned : inst[i].callbacks # <<>> /\ inst[i].stream # 0

\* C13: a lookup never gives an instance without an owning handle, pruned
\* or not: a notification gets to an instance only if it has one and is
\* answered SERVICE_SPECIFIC when every instance with its cid has none, the
\* stream listener attaches only to an instance that has one and drops the
\* stream otherwise, and the listing has entries of such instances only.
LookupsSkipReleased ==
    [][/\ \A t \in Threads :
             (pc[t] \in {"idle", "wait"} /\ pc'[t] \notin {"idle", "wait"}) =>
                IF \E i \in Owned : U32AsI32(inst[i].cid) = call'[t].cid
                THEN /\ pc'[t] = "update"
                     /\ call'[t].vm \in Owned
                     /\ U32AsI32(inst[call'[t].vm].cid) = call'[t].cid
                ELSE pc'[t] = "done" /\ call'[t].status = "SERVICE_SPECIFIC"
       /\ (conn.state = "accepted" /\ conn'.state # "accepted") =>
             IF \E i \in Owned : inst[i].cid = conn.cid
             THEN conn'.state = "attached" /\ conn'.vm \in Owned
             ELSE conn'.state = "dropped" /\ inst' = inst
       /\ (ret' # ret /\ ret'.op = "debugListVms") =>
             \A k \in 1..Len(ret'.list) :
                \E i \in Owned : ret'.list[k].cid = U32AsI32(inst[i].cid)]_vars

\* a notification for the cid of a released instance whose entry is still in
\* the stored list was answered as unknown
LookupsSkipReleasedWitness ==
    \E t \in Threads :
        /\ pc[t] = "done" /\ call[t].status = "SERVICE_SPECIFIC"
        /\ \E k \in 1..Len(vms) :
              /\ BinderRefs(vms[k]) = 0
              /\ U32AsI32(inst[vms[k]].cid) = call[t].cid

\* C14: a createVm call that returns OK has made one new instance, returns
\* the handle to it, the instance reads NOT_STARTED, it is in the stored
\* list, and no other instance with an owning handle has its CID.
CreateVmGivesFreshInstance ==
    [][(ret' # ret /\ ret'.op = "createVm" /\ ret'.status = "OK") =>
          /\ Len(inst') = Len(inst) + 1
          /\ ret'.vm = Len(inst')
          /\ inst'[ret'.vm].cid = ret'.cid
          /\ GetState(inst'[ret'.vm]) = "NOT_STARTED"
          /\ held'[ret'.vm] = 1
          /\ \E k \in 1..Len(vms') : vms'[k] = ret'.vm
          /\ \A i \in Owned : inst[i].cid # ret'.cid]_vars

\* the third instance was made while the first two still had their handles
CreateVmGivesFreshInstanceWitness ==
    /\ ret.op = "createVm" /\ ret.status = "OK" /\ ret.vm = 3
    /\ Owned = {1, 2, 3}
    /\ Len(vms) = 3

\* C15: start on a NotStarted instance either returns OK and leaves it
\* Running, or returns the launch error and leaves it Failed; on an instance
\* in any other state it returns an error and vm_state stays; a Failed
\* instance is never launched again.
StartOnlyFromNotStarted ==
    [][/\ (ret' # ret /\ ret'.op = "start") =>
             IF inst[ret'.vm].vm_state = "NotStarted"
             THEN \/ ret'.status = "OK" /\ inst'[ret'.vm].vm_state = "Running"
                  \/ ret'.status = "SERVICE_SPECIFIC"
                        /\ inst'[ret'.vm].vm_state = "Failed"
             ELSE /\ ret'.status = "SERVICE_SPECIFIC"
                  /\ inst'[ret'.vm].vm_state = inst[ret'.vm].vm_state
       /\ \A i \in Insts :
             inst[i].vm_state = "Failed" => inst'[i].vm_state = "Failed"]_vars

\* start was refused on a running instance
StartOnlyFromNotStartedWitness ==
    /\ ret.op = "start" /\ ret.status = "SERVICE_SPECIFIC"
    /\ inst[ret.vm].vm_state = "Running"

\* C16: connectVsock on an instance that is not Running returns ILLEGAL_STATE,
\* opens no connection and changes no instance.
ConnectRefusedWithIllegalState ==
    [][(ret' # ret /\ ret'.op = "connectVsock"
          /\ inst[ret'.vm].vm_state # "Running") =>
             /\ ret'.status = "ILLEGAL_STATE"
             /\ ~ret'.opened
             /\ inst' = inst]_vars

\* C17: an instance that is Dead or Failed stays so, and vm_state only ever
\* goes NotStarted -> Running, Running -> Dead, NotStarted -> Failed,
\* Running -> Failed or, by kill, NotStarted -> Dead.
VmStateTerminal ==
    [][\A i \in Insts :
          /\ inst[i].vm_state \in {"Dead", "Failed"} =>
                inst'[i].vm_state = inst[i].vm_state
          /\ inst'[i].vm_state # inst[i].vm_state =>
                <<inst[i].vm_state, inst'[i].vm_state>> \in
                    {<<"NotStarted", "Running">>, <<"Running", "Dead">>,
                     <<"NotStarted", "Failed">>, <<"Running", "Failed">>,
                     <<"NotStarted", "Dead">>}]_vars

\* connectVsock was called on an instance whose launch had failed, and the
\* instance is still Failed
VmStateTerminalWitness ==
    /\ ret.op = "connectVsock"
    /\ inst[ret.vm].vm_state = "Failed"
    /\ inst[ret.vm].callbacks # <<>>
    /\ inst[ret.vm].payload_state # "Starting"

\* C18: the release of the last owning handle of an instance kills it: it is
\* Dead afterwards (a Failed one stays Failed); a release that leaves another
\* owning handle, the client's or the debug-held one, leaves vm_state alone;
\* the releasing caller gets nothing back.
KillOnLastRelease ==
    [][\A i \in Insts :
          /\ (BinderRefs(i) = 1 /\ BinderRefs(i)' = 0) =>
                /\ inst'[i].vm_state =
                      IF inst[i].vm_state = "Failed" THEN "Failed" ELSE "Dead"
                /\ ret' = ret
          /\ (BinderRefs(i)' < BinderRefs(i) /\ BinderRefs(i)' >= 1) =>
                inst'[i].vm_state = inst[i].vm_state]_vars

\* the client released its handle of a running instance that is debug-held:
\* the instance still runs
KillOnLastReleaseWitness ==
    \E i \in Insts :
        /\ held[i] = 0 /\ BinderRefs(i) = 1
        /\ inst[i].vm_state = "Running"

\* the state a caller is to see for a pair of vm_state and payload_state
Flattened(vm_state, payload_state) ==
    CASE vm_state = "NotStarted" -> "NOT_STARTED"
      [] vm_state = "Running" /\ payload_state = "Starting" -> "STARTING"
      [] vm_state = "Running" /\ payload_state = "Started" -> "STARTED"
      [] vm_state = "Running" /\ payload_state = "Ready" -> "READY"
      [] vm_state = "Running" /\ payload_state = "Finished" -> "FINISHED"
      [] vm_state \in {"Dead", "Failed"} -> "DEAD"

\* C19: getState returns, and each entry of debugListVms carries, the
\* flattened state of the pair the instance is in.
StateFlattening ==
    [][/\ (ret' # ret /\ ret'.op = "getState") =>
             ret'.state = Flattened(inst[ret'.vm].vm_state,
                                    inst[ret'.vm].payload_state)
       /\ (ret' # ret /\ ret'.op = "debugListVms" /\ ret'.status = "OK") =>
             \A k \in 1..Len(ret'.list) :
                \E i \in Owned :
                   /\ ret'.list[k].cid = U32AsI32(inst[i].cid)
                   /\ ret'.list[k].state = Flattened(inst[i].vm_state,
                                                     inst[i].payload_state)]_vars

\* getState answered DEAD for an instance whose launch failed and whose
\* payload state is Ready
StateFlatteningWitness ==
    /\ ret.op = "getState" /\ ret.state = "DEAD"
    /\ inst[ret.vm].vm_state = "Failed"
    /\ inst[ret.vm].payload_state = "Ready"

\* C20: while a notification for an instance is inside the listener calls,
\* a notification waiting for another instance can go on, a stream accepted
\* from the guest of another instance can be attached, and getState and
\* registerCallback on another instance can run.
OtherInstanceNotBlocked ==
    \A t \in Threads :
        pc[t] = "fanout" =>
            \A i \in Owned \ {call[t].vm} :
                /\ \A u \in Threads :
                      (pc[u] = "wait" /\ call[u].cid = U32AsI32(inst[i].cid)) =>
                          ENABLED NotifyEnter(u)
                /\ (conn.state = "accepted" /\ conn.cid = inst[i].cid) =>
                      ENABLED BridgeAttach
                /\ ENABLED GetStateCall(i)
                /\ ENABLED RegisterCallback(i, "L1")

\* C21: a thread that takes the State mutex holds the callbacks mutex of no
\* instance, a callbacks mutex is only held by the thread that holds the
\* State mutex, and whenever calls are under way one of them can make a step:
\* no state is a deadlock.
LockOrderKept ==
    /\ [][\A t \in Threads :
             (regLock # t /\ regLock' = t) => \A i \in Insts : cbLock[i] # t]_vars
    /\ [](\A i \in Insts : cbLock[i] # 0 => regLock = cbLock[i])
    /\ []((\E t \in Threads : pc[t] # "idle") =>
             \E t \in Threads : ENABLED (NotifyEnter(t) \/ Handle(t)))

LockOrderKeptWitness ==
    \E t \in Threads, u \in Threads :
        /\ pc[t] = "fanout" /\ cbLock[call[t].vm] = t /\ regLock = t
        /\ pc[u] = "wait"
        /\ conn.state = "accepted"
        /\ call[t].delivered # <<>>

\* C22: the State mutex is not held while a notification handler is at the
\* listener calls: there the handler's thread does not own it, and a
\* debugListVms call can run.
RegistryLockShort ==
    \A t \in Threads :
        pc[t] \in {"lock_callbacks", "fanout"} =>
            /\ regLock # t
            /\ ENABLED DebugListVms(Shell)

\* C23: registerCallback can be called in every vm_state of an instance whose
\* handle is held (it waits only for the callbacks mutex), and a step that
\* changes the callbacks of an instance adds one listener at the end: what
\* was registered before stays, in the same order, in front of it.
CallbacksAppendOnly ==
    /\ [](\A i \in Insts, l \in Listeners :
             (held[i] > 0 /\ cbLock[i] = 0) => ENABLED RegisterCallback(i, l))
    /\ [][\A i \in Insts :
             inst'[i].callbacks # inst[i].callbacks =>
                 /\ Len(inst'[i].callbacks) = Len(inst[i].callbacks) + 1
                 /\ SubSeq(inst'[i].callbacks, 1, Len(inst[i].callbacks))
                        = inst[i].callbacks]_vars

CallbacksAppendOnlyWitness ==
    \E i \in Insts :
        /\ inst[i].vm_state = "Dead"
        /\ ret.op = "onDied" /\ ret.vm = i /\ Len(ret.delivered) = 1
        /\ Len(inst[i].callbacks) = 2
        /\ inst[i].callbacks[1] # inst[i].callbacks[2]
        /\ inst[i].callbacks[1] = ret.delivered[1].listener

\* what the service keeps: the CID counter, the files, the registry, the
\* debug-held handles and the instances
ServiceState == <<sysprop, issued, fs, vms, debug_held_vms, persist, inst, held>>

U32Follows(a, b) ==
    \/ a.lo < Half - 1 /\ b.hi = a.hi /\ b.lo = a.lo + 1
    \/ a.lo = Half - 1 /\ b.hi = a.hi + 1 /\ b.lo = 0 /\ b.hi < Half

\* the property cannot be read, or what it holds is not a u32 in decimal
NoLastCid == sysprop = NoProp \/ ParseU32(sysprop) = NoValue

\* C25: a createVm call that gets a CID gets the number the property held
\* plus 1, or FIRST_GUEST_CID when the property was unset or did not parse
\* (such a call is not refused); the property then holds the decimal form of
\* that CID.  The property changes in no other step, and a call whose
\* property write fails gets no CID and leaves the property as it was.
NextCidContract ==
    [][/\ issued' # issued =>
             /\ issued' = Append(issued, ret'.cid)
             /\ IF NoLastCid
                THEN ret'.cid = U32(0, FIRST_GUEST_CID)
                ELSE U32Follows(ParseU32(sysprop), ret'.cid)
             /\ sysprop' = FormatU32(ret'.cid)
       /\ issued' = issued => sysprop' = sysprop
       /\ (NoLastCid /\ CreateVm(App, SimpleConfig, NoFail)) =>
             issued' # issued /\ ret'.status = "OK"
       /\ CreateVm(App, SimpleConfig, [stage |-> "property_write", disk |-> 0]) =>
             /\ ret'.cid = NoValue /\ ret'.status = "ILLEGAL_STATE"
             /\ issued' = issued]_vars

NextCidContractWitness ==
    /\ issued = <<U32FromNat(100), U32FromNat(101)>>
    /\ sysprop = <<"1", "0", "1">>
    /\ ret.op = "createVm" /\ ret.status = "ILLEGAL_STATE" /\ ret.cid = NoValue

\* C26: a createVm call made with the property at u32::MAX gets no CID, is
\* answered with an error kind of its own (not the ILLEGAL_STATE that a
\* failed property write gives), and leaves the property, the registry and
\* the instances as they were.
CidExhaustionSurfaced ==
    [][(ParseU32(sysprop) = U32_MAX /\ CreateVm(App, SimpleConfig, NoFail)) =>
           /\ ret'.cid = NoValue
           /\ ret'.status \notin {"OK", "ILLEGAL_STATE"}
           /\ UNCHANGED <<sysprop, issued, fs, vms, inst>>]_vars

\* the disks asked for in the last createVm call, by shape
ImageOnly(d) == d.image /\ d.partitions = 0

PartitionsOnly(d) == ~d.image /\ d.partitions > 0

Unusable(d) == ~ImageOnly(d) /\ ~PartitionsOnly(d)

RECURSIVE PartitionsOnlyBefore(_, _)
PartitionsOnlyBefore(disks, n) ==
    IF n = 0 THEN 0
    ELSE PartitionsOnlyBefore(disks, n - 1) + (IF PartitionsOnly(disks[n]) THEN 1 ELSE 0)

\* C27: in a createVm call that meets no other failure, a disk with neither
\* an image nor partitions makes the call fail with ILLEGAL_ARGUMENT; an
\* image-only disk becomes a disk file backed by that image with the writable
\* flag asked for, taking no value of the composite counter and adding no
\* indirect file; a partitions-only disk becomes a composite disk file with
\* the writable flag asked for, taking the next value of the counter and
\* adding its partition files.
DiskDispatch ==
    (ret.op = "createVm" /\ ret.fail = "none") =>
        LET reqs == ret.disks
            bad  == {k \in 1..Len(reqs) : Unusable(reqs[k])}
        IN  /\ (\E k \in 1..Len(reqs) : ~reqs[k].image /\ reqs[k].partitions = 0)
                  => ret.status = "ILLEGAL_ARGUMENT"
            /\ bad = {} <=> ret.status = "OK"
            /\ ret.status = "OK" =>
                  LET vm == inst[ret.vm]
                  IN  /\ Len(vm.disks) = Len(reqs)
                      /\ \A k \in 1..Len(reqs) :
                            /\ vm.disks[k].writable = reqs[k].writable
                            /\ ImageOnly(reqs[k]) =>
                                  /\ vm.disks[k].kind = "image" /\ vm.disks[k].id = k
                                  /\ \A f \in 1..Len(vm.indirect_files) :
                                        vm.indirect_files[f].disk # k
                            /\ PartitionsOnly(reqs[k]) =>
                                  /\ vm.disks[k].kind = "composite"
                                  /\ vm.disks[k].id = PartitionsOnlyBefore(reqs, k - 1)
                                  /\ Cardinality({f \in 1..Len(vm.indirect_files) :
                                                     vm.indirect_files[f].disk = k})
                                        = reqs[k].partitions
                      /\ ret.next_id = PartitionsOnlyBefore(reqs, Len(reqs))

DiskDispatchWitness ==
    /\ ret.op = "createVm" /\ ret.fail = "none" /\ ret.status = "OK"
    /\ Len(ret.disks) = 2
    /\ ImageOnly(ret.disks[1]) /\ ret.disks[1].writable
    /\ PartitionsOnly(ret.disks[2]) /\ ~ret.disks[2].writable
    /\ inst[ret.vm].disks[2].id = 0
    /\ Len(inst[ret.vm].indirect_files) = 2

\* the three file names of a composite disk of an instance
CompositeNames(vm, k) ==
    LET f == MakeCompositeImageFilenames(vm.temporary_directory, vm.disks[k].id)
    IN  {f.composite, f.header, f.footer}

\* C28: in the instance a createVm call made, the counter values of the
\* composite disks start at 0 and grow by one from each composite disk to the
\* next; the three file names of a composite disk are distinct, no name is
\* shared by two composite disks, and the call created one file per name.
CompositeNamesDistinct ==
    (ret.op = "createVm" /\ ret.status = "OK") =>
        LET vm == inst[ret.vm]
            composites == {k \in 1..Len(vm.disks) : vm.disks[k].kind = "composite"}
        IN  /\ \A k \in composites :
                  /\ vm.disks[k].id = Cardinality({j \in composites : j < k})
                  /\ Cardinality(CompositeNames(vm, k)) = 3
                  /\ CompositeNames(vm, k) \subseteq ret.created
                  /\ \A j \in composites :
                        j < k =>
                            /\ vm.disks[j].id < vm.disks[k].id
                            /\ CompositeNames(vm, j) \cap CompositeNames(vm, k) = {}
            /\ Cardinality(ret.created) = 2 + 3 * Cardinality(composites)

CompositeNamesDistinctWitness ==
    /\ ret.op = "createVm" /\ ret.status = "OK"
    /\ Len(inst[ret.vm].disks) = 2
    /\ inst[ret.vm].disks[1].kind = "composite" /\ inst[ret.vm].disks[1].id = 0
    /\ inst[ret.vm].disks[2].kind = "composite" /\ inst[ret.vm].disks[2].id = 1

\* the path of the zero filler of a createVm call that got the CID cid
ZeroFillerPath(cid) == Join(TemporaryDirectory(cid), <<"zero.img">>)

\* C29: a createVm call that assembled a disk had created zero.img in its
\* temporary directory before; a call that succeeds created, beside the
\* directory and the composite files, that one file and no other, and every
\* composite disk of the instance was assembled with its path.
ZeroFillerOnce ==
    ret.op = "createVm" =>
        /\ ret.next_id > 0 => ZeroFillerPath(ret.cid) \in ret.created
        /\ ret.status = "OK" =>
              LET vm == inst[ret.vm]
                  composites == {k \in 1..Len(vm.disks) : vm.disks[k].kind = "composite"}
              IN  /\ ret.created \ ({vm.temporary_directory}
                                      \cup UNION {CompositeNames(vm, k) : k \in composites})
                        = {ZeroFillerPath(ret.cid)}
                  /\ \A k \in composites :
                        vm.disks[k].zero_filler = ZeroFillerPath(vm.cid)

ZeroFillerOnceWitness ==
    /\ ret.op = "createVm" /\ ret.status = "OK" /\ ret.next_id = 2
    /\ inst[ret.vm].disks[1].zero_filler = inst[ret.vm].disks[2].zero_filler
    /\ inst[ret.vm].disks[1].zero_filler \in fs

\* C30: the instance a createVm call made holds, in its indirect files, one
\* file for each partition of each partitions-only disk asked for and no
\* other; the indirect files of an instance never change afterwards, so they
\* are those files while the instance is running.
IndirectFilesKept ==
    /\ []((ret.op = "createVm" /\ ret.status = "OK") =>
             LET vm == inst[ret.vm]
                 parts == {x \in [disk : 1..Len(ret.disks), part : 1..MaxParts] :
                              /\ PartitionsOnly(ret.disks[x.disk])
                              /\ x.part <= ret.disks[x.disk].partitions}
             IN  /\ {vm.indirect_files[f] : f \in 1..Len(vm.indirect_files)} = parts
                 /\ Len(vm.indirect_files) = Cardinality(parts))
    /\ [][\A i \in Insts : inst'[i].indirect_files = inst[i].indirect_files]_vars

IndirectFilesKeptWitness ==
    \E i \in Insts :
        /\ inst[i].vm_state = "Running" /\ ret.op = "start"
        /\ Len(inst[i].indirect_files) = 4
        /\ Len(inst[i].disks) = 2

\* C31: a notifyPayloadReady or notifyPayloadFinished call leaves the stream
\* slot of its instance as it is at every step, carries no stream, and when
\* it returns OK every registered listener got onPayloadReady with the CID,
\* or onPayloadFinished with the CID and the exit code of the call.
ReadyFinishedPassNoStream ==
    [][\A t \in Threads :
          call[t].op \in {"notifyPayloadReady", "notifyPayloadFinished"} =>
              /\ InHandler(t) =>
                    /\ inst'[call[t].vm].stream = inst[call[t].vm].stream
                    /\ pc'[t] # "take"
                    /\ pc'[t] # "done" => call'[t].stream = 0
              /\ Leaves(t, "fanout") =>
                    /\ pc'[t] = "done" /\ call'[t].status = "OK"
                    /\ Len(call[t].delivered) = Len(inst[call[t].vm].callbacks)
                    /\ \A k \in 1..Len(call[t].delivered) :
                          /\ call[t].delivered[k].listener = inst[call[t].vm].callbacks[k]
                          /\ call[t].delivered[k].event = Event(call[t].op)
                          /\ call[t].delivered[k].cid = call[t].cid
                          /\ call[t].delivered[k].stream = 0
                          /\ call[t].delivered[k].code = call[t].code]_vars

ReadyFinishedPassNoStreamWitness ==
    \E t \in Threads :
        /\ pc[t] = "fanout" /\ call[t].op = "notifyPayloadFinished" /\ call[t].code = 1
        /\ Len(call[t].delivered) = 2
        /\ inst[call[t].vm].stream # 0

\* C32: an initializeWritablePartition call that passes the permission check
\* is refused with ILLEGAL_ARGUMENT for a negative size and for a partition
\* type that is neither RAW nor ANDROID_VM_INSTANCE; a RAW partition that is
\* made gets nothing written, an ANDROID_VM_INSTANCE partition gets the magic
\* string followed by the bytes 1, 0 of version 1.
PartitionArgumentsChecked ==
    (ret.op = "initializeWritablePartition" /\ ret.status # "SECURITY") =>
        /\ ret.size < 0 => ret.status = "ILLEGAL_ARGUMENT"
        /\ ret.partition_type \notin {"RAW", "ANDROID_VM_INSTANCE"} =>
              ret.status = "ILLEGAL_ARGUMENT"
        /\ (ret.status = "OK" /\ ret.partition_type = "RAW") => ret.written = <<>>
        /\ (ret.status = "OK" /\ ret.partition_type = "ANDROID_VM_INSTANCE") =>
              ret.written = <<"Android-VM-instance", 1, 0>>

\* how often instance i is in a list of instance numbers
Occurrences(list, i) == Cardinality({k \in 1..Len(list) : list[k] = i})

PlaceOf(list, j) ==
    IF \E k \in 1..Len(list) : list[k] = j
    THEN CHOOSE k \in 1..Len(list) : list[k] = j
    ELSE 0

\* C35: the step that adds an instance first drops every stored entry whose
\* instance has no owning handle left and then appends the new entry: no
\* entry of an owned instance is removed, the entries that stay keep their
\* order, the new entry is the last one, and no other operation (listing,
\* hold, drop, release, partition initialisation) changes the stored list.
AddVmPrunesThenAppends ==
    [][IF Len(inst') > Len(inst)
       THEN /\ Len(vms') > 0 /\ vms'[Len(vms')] = Len(inst')
            /\ \A j \in Insts :
                  PlaceOf(vms', j) > 0 <=>
                      (PlaceOf(vms, j) > 0 /\ StrongCount(j) > 0)
            /\ \A j, k \in Insts :
                  (PlaceOf(vms', j) > 0 /\ PlaceOf(vms', k) > 0) =>
                      (PlaceOf(vms', j) < PlaceOf(vms', k) <=>
                           PlaceOf(vms, j) < PlaceOf(vms, k))
            /\ Len(vms') =
                   1 + Cardinality({k \in 1..Len(vms) : StrongCount(vms[k]) > 0})
       ELSE vms' = vms]_vars

AddVmPrunesThenAppendsWitness ==
    /\ ret.op = "createVm" /\ ret.status = "OK"
    /\ Len(inst) = 3 /\ vms = <<2, 3>>
    /\ held[1] = 0 /\ Occurrences(debug_held_vms, 1) = 0

\* thread t calls a listener in this step
Delivers(t) == Len(call'[t].delivered) > Len(call[t].delivered)

\* C36: every listener of an instance gets the instance's payload events in
\* payload-state order, however concurrent notification calls interleave.
\* The payload state of an instance never goes back; a listener is called
\* for an event only while the instance is in the state that event stands
\* for, so every event handed out earlier belongs to an earlier state; and
\* while one call is between its state advance and the end of its fan-out no
\* other call for the same instance is past its own state advance.
ListenersSeeEventsInOrder ==
    /\ [][\A i \in Insts :
             PayloadRank(inst'[i].payload_state) >= PayloadRank(inst[i].payload_state)]_vars
    /\ [][\A t \in Threads :
             Delivers(t) =>
                 /\ inst[call[t].vm].payload_state = Target(call[t].op)
                 /\ call'[t].delivered[Len(call'[t].delivered)].event = Event(call[t].op)
                 /\ \A u \in Threads \ {t} :
                       (InHandler(u) /\ call[u].vm = call[t].vm) => pc[u] = "update"]_vars
    /\ [](\A t \in Threads, u \in Threads :
             ~(/\ t # u /\ pc[t] \in {"take", "lock_callbacks", "fanout"}
               /\ InHandler(u) /\ call[u].vm = call[t].vm))

ListenersSeeEventsInOrderWitness ==
    \E t \in Threads, u \in Threads :
        /\ t # u
        /\ pc[t] = "fanout" /\ call[t].op = "notifyPayloadReady"
        /\ Len(call[t].delivered) = 1 /\ call[t].delivered[1].event = "onPayloadReady"
        /\ pc[u] = "wait" /\ call[u].op = "notifyPayloadStarted"
        /\ call[u].cid = call[t].cid

\* the listener call thread t makes in this step
Delivery(t) == call'[t].delivered[Len(call'[t].delivered)]

\* C37: a stream gets to a listener only in the fan-out of a
\* notifyPayloadStarted call that advanced the payload state, and it is then
\* in no slot and in no other call, so that no second fan-out can carry it.
\* A stream that is in the slot of an instance whose payload state has left
\* Starting (and that the advancing call is not about to take) stays there
\* until a later connection replaces it, and no call picks it up.
StreamOnlyThroughStarted ==
    /\ [][\A t \in Threads :
             (Delivers(t) /\ Delivery(t).stream # 0) =>
                 /\ call[t].op = "notifyPayloadStarted"
                 /\ Delivery(t).event = "onPayloadStarted"
                 /\ call[t].seen = "Starting"
                 /\ inst[call[t].vm].payload_state = "Started"
                 /\ Delivery(t).stream = call[t].stream
                 /\ \A i \in Insts : inst[i].stream # call[t].stream
                 /\ \A u \in Threads \ {t} : call[u].stream # call[t].stream
                 /\ conn.state = "accepted" => conn.stream # call[t].stream]_vars
    /\ [][\A i \in Insts :
             (/\ inst[i].stream # 0
              /\ PayloadRank(inst[i].payload_state) > PayloadRank("Starting")
              /\ ~\E t \in Threads :
                    pc[t] = "take" /\ call[t].vm = i /\ call[t].seen = "Starting") =>
                 /\ inst'[i].stream # 0
                 /\ inst'[i].stream # inst[i].stream =>
                       (conn.state = "accepted" /\ inst'[i].stream = conn.stream)
                 /\ \A t \in Threads : call'[t].stream # inst[i].stream]_vars

StreamOnlyThroughStartedWitness ==
    \E t \in Threads :
        /\ pc[t] = "done" /\ call[t].op = "notifyPayloadFinished"
        /\ call[t].status = "OK"
        /\ \E i \in Insts :
              /\ inst[i].payload_state = "Finished" /\ inst[i].stream # 0
              /\ Len(inst[i].callbacks) > 0
              /\ conn.state = "attached" /\ conn.vm = i

\* C38: a createVm call that fails after next_cid gave it a CID adds no
\* instance and no stored entry, and leaves the persisted property at the
\* CID it took; every CID issued afterwards is above all CIDs issued before,
\* those of failed calls included, so the CID of a failed call is not given
\* out again.
FailedCreateKeepsCidTaken ==
    /\ [][(issued' # issued /\ ret'.op = "createVm" /\ ret'.status # "OK") =>
             /\ ret'.cid # NoValue /\ ret'.vm = 0
             /\ issued' = Append(issued, ret'.cid)
             /\ vms' = vms /\ inst' = inst /\ held' = held
             /\ ParseU32(sysprop') = ret'.cid]_vars
    /\ [][issued' # issued =>
             /\ Len(issued') = Len(issued) + 1
             /\ \A k \in 1..Len(issued) :
                   /\ issued'[k] = issued[k]
                   /\ U32Less(issued[k], issued'[Len(issued')])]_vars
    /\ [](\A i \in Insts : \E k \in 1..Len(issued) : issued[k] = inst[i].cid)

\* the second call failed after its CID was taken, the third got the next one
FailedCreateKeepsCidTakenWitness ==
    /\ Len(issued) = 3 /\ Len(inst) = 2 /\ Len(vms) = 2
    /\ ret.op = "createVm" /\ ret.status = "OK" /\ ret.cid = issued[3]
    /\ inst[1].cid = issued[1] /\ inst[2].cid = issued[3]
    /\ held = <<1, 1>>

NameEntryBytes ==
    <<58, 0, 1, 17, 113, 114>> \o MicrodroidPayload

\* the bytes of one subcomponent: a map of four entries with the keys 1 to 4
SubcomponentBytes(s) ==
    <<164>> \o <<1>> \o ToVec(CborText(s.name))
            \o <<2>> \o ToVec(CborInt(s.version))
            \o <<3>> \o <<128 + Len(s.code_hash)>>
                     \o ConcatSeqs([k \in 1..Len(s.code_hash) |->
                                       ToVec(CborInt(s.code_hash[k]))])
            \o <<4>> \o <<128 + Len(s.authority_hash)>>
                     \o ConcatSeqs([k \in 1..Len(s.authority_hash) |->
                                       ToVec(CborInt(s.authority_hash[k]))])

\* C34: format_payload_config_descriptor fails for a payload that is neither
\* a config path nor a config.  Otherwise it gives a map that starts with
\* key -70002 and the component name, goes on with key -71000 and the config
\* path, or key -71001 and the map {1: payload binary name}, and ends there
\* when there are no subcomponents: with subcomponents a third entry follows,
\* key -71002 and the list of the subcomponents in input order, each as the
\* map {1: name, 2: version, 3: code hash, 4: authority hash}.  The two
\* descriptors without subcomponents of the unit tests come out byte for
\* byte, and so does the one with two subcomponents for a version of 4097.
DescriptorLayout ==
    ret.op = "format_payload_config_descriptor" =>
        LET payload == ret.payload
            subcomponents == ret.subcomponents
        IN  /\ payload.kind \notin {"ConfigPath", "Config"} =>
                  ret.status = "Err" /\ ret.bytes = <<>>
            /\ payload.kind \in {"ConfigPath", "Config"} =>
                  /\ ret.status = "Ok"
                  /\ ret.bytes =
                       <<160 + (IF subcomponents = <<>> THEN 2 ELSE 3)>>
                       \o NameEntryBytes
                       \o (IF payload.kind = "ConfigPath"
                           THEN <<58, 0, 1, 21, 87>> \o ToVec(CborText(payload.text))
                           ELSE <<58, 0, 1, 21, 88>> \o <<161, 1>>
                                    \o ToVec(CborText(payload.text)))
                       \o (IF subcomponents = <<>> THEN <<>>
                           ELSE <<58, 0, 1, 21, 89>> \o <<128 + Len(subcomponents)>>
                                    \o ConcatSeqs([k \in 1..Len(subcomponents) |->
                                           SubcomponentBytes(subcomponents[k])]))
            /\ (payload = [kind |-> "ConfigPath", text |-> ConfigPathText]
                    /\ subcomponents = <<>>) =>
                  ret.bytes = <<162>> \o NameEntryBytes
                                  \o <<58, 0, 1, 21, 87, 108>> \o ConfigPathText
            /\ (payload = [kind |-> "Config", text |-> PayloadBinaryText]
                    /\ subcomponents = <<>>) =>
                  ret.bytes = <<162>> \o NameEntryBytes
                                  \o <<58, 0, 1, 21, 88, 161, 1, 110>> \o PayloadBinaryText
            /\ (payload = [kind |-> "ConfigPath", text |-> ConfigPathText]
                    /\ subcomponents = <<Apk1, Apk2>>) =>
                  ret.bytes = <<163>> \o NameEntryBytes
                                  \o <<58, 0, 1, 21, 87, 108>> \o ConfigPathText
                                  \o <<58, 0, 1, 21, 89, 130,
                                       164, 1, 100, 97, 112, 107, 49, 2, 1,
                                       3, 129, 24, 42, 4, 129, 17,
                                       164, 1, 100, 97, 112, 107, 50, 2, 25, 16, 1,
                                       3, 129, 24, 43, 4, 129, 19>>

\* a config payload with two subcomponents was formatted
DescriptorLayoutWitness ==
    /\ ret.op = "format_payload_config_descriptor" /\ ret.status = "Ok"
    /\ ret.payload.kind = "Config" /\ ret.payload.text # <<>>
    /\ Len(ret.subcomponents) = 2
    /\ ret.subcomponents[1] # ret.subcomponents[2]
    /\ Len(ret.bytes) > 60

\* the place of an effect in the log of the start_new_instance call, 0 when
\* the call has not had it
Effect(e) == PlaceOf(ret.log, e)

\* C40: start_new_instance keeps a fixed order.  When the VM is started the
\* instance image was truncated and then initialised as an instance
\* partition, whatever was there before, and after that the removal of each
\* of the three idsig files was tried; a file whose removal failed is still
\* there and the VM is started all the same.  The attestation chain is
\* fetched only after the VM was started and connected to, and written only
\* after it was fetched.  A call that ends without an initialised image ends
\* with an error and has not started the VM.
StartNewInstanceOrder ==
    ret.op = "start_new_instance" =>
        /\ (ret.vm # "none" \/ Effect("ComposClient::start") > 0) =>
              /\ 0 < Effect("truncate_image")
              /\ Effect("truncate_image") < Effect("initializeWritablePartition")
              /\ Effect("initializeWritablePartition") < Effect("remove_idsig")
              /\ Effect("remove_idsig") < Effect("remove_idsig_manifest_apk")
              /\ Effect("remove_idsig_manifest_apk") < Effect("remove_idsig_manifest_ext_apk")
              /\ Effect("remove_idsig_manifest_ext_apk") < Effect("ComposClient::start")
              /\ ret.image = ImageWith(<<"Android-VM-instance", 1, 0>>)
        /\ Effect("getAttestationChain") > 0 =>
              /\ 0 < Effect("ComposClient::start")
              /\ Effect("ComposClient::start") < Effect("connect_service")
              /\ Effect("connect_service") < Effect("getAttestationChain")
        /\ (ret.bcc = "new" \/ Effect("write_bcc") > 0) =>
              /\ 0 < Effect("getAttestationChain")
              /\ Effect("getAttestationChain") < Effect("write_bcc")
              /\ ret.vm = "started" /\ ret.status = "OK"
        /\ (ret.stage = "done" /\ Effect("initializeWritablePartition") = 0) =>
              /\ ret.status = "Err"
              /\ ret.vm = "none" /\ Effect("ComposClient::start") = 0
              /\ ret.bcc # "new"
        /\ ret.status = "OK" =>
              /\ ret.stage = "done" /\ ret.vm = "started" /\ ret.bcc = "new"
        /\ \A k \in 1..Len(ret.log), j \in 1..Len(ret.log) :
              ret.log[k] = ret.log[j] => k = j

\* the call went well although an idsig file could not be removed
StartNewInstanceOrderWitness ==
    /\ ret.op = "start_new_instance" /\ ret.stage = "done" /\ ret.status = "OK"
    /\ ret.idsig = {"idsig_manifest_apk"}
    /\ ret.llpvm /\ ret.id_file = "new"
    /\ ret.vm = "started" /\ ret.bcc = "new"
    /\ Len(ret.log) = 12

=============================================================================
